---- MODULE Spec2Model ----
(***************************************************************************)
(* Request Correlation Tracker (src/app/utils/request_tracker.py).         *)
(*                                                                         *)
(* The tracker runs on one asyncio event loop.  Every mutating method      *)
(* takes self._lock and never awaits while it holds it, so the body of a   *)
(* method is one step, except complete_request, whose move of a context    *)
(* from the active map to the completed map is modelled in two steps under *)
(* the lock (the pop of line 191, the insert of line 205) so that the      *)
(* atomicity of the move is something the lock has to provide.             *)
(*                                                                         *)
(* The metadata bag, the urls and start_time of a context are left out:    *)
(* no method reads them.                                                   *)
(*                                                                         *)
(* Conventions: Python's None is the string "None" for strings and 0 for   *)
(* end_time (the code itself reads end_time through `end_time or 0` and    *)
(* `if end_time:`); time.time() is the non-decreasing clock `now`, which   *)
(* starts at 1; generate_request_id returns a fresh id (uuid4).            *)
(***************************************************************************)
EXTENDS Integers, Sequences, FiniteSets, TLC

\* ---------------------------------------------------------------- bounds
MaxRequests == 3        \* contexts ever created
MaxTracked == 2         \* max_tracked_requests given to the constructor
MaxRequestAge == 1      \* max_request_age given to the constructor
MaxTime == 3            \* last reading of the clock
MaxRetryCount == 1      \* cap on retry_count
MaxCounted == 1         \* cap on the counter increments update_context causes per id
MaxApiRequests == 1     \* contexts created when the whole method surface is exercised
MaxSnapshotRequests == 2 \* contexts created beside a reader's caller
MaxCallerWrites == 1    \* changes the caller makes to what a reader returned
MaxTasks == 2           \* _cleanup_loop tasks start() creates
MaxStopCallers == 2     \* coroutines that call stop()
MaxStarts == 2          \* start() calls counted between two stop() calls
MaxRetries == 3         \* largest max_retries given to ProxiedHTTPClient
MaxRetryDelay == 2      \* largest retry_delay given to ProxiedHTTPClient
MaxChunks == 2          \* chunks one stream yields
MaxCredentialLen == 2   \* characters in web_api_token and in ssxmod_itna
MaxPayloadLen == 3      \* characters in a payload somebody else compressed
MaxSessionAge == 1      \* max_age of a stored session (43200 s), in clock readings
MaxSessionCalls == 2    \* get_valid_session calls on one QwenAuth
MaxPoolRetries == 2     \* max_retries of the client whose calls share the pool

\* ------------------------------------------------------------ value sets
None == "None"
Ids == 1..MaxRequests
TerminalStatuses == {"success", "failed", "timeout"}
KnownStatuses == TerminalStatuses \cup {"pending"}
UpdateStatusArgs == {None, "success", "failed", "timeout", "pending", "cancelled"}
CompleteStatusArgs == {"success", "failed", "timeout", "pending"}
ErrorArgs == {None, "boom"}
ExitKinds == {"return", "TimeoutError", "Exception", "CancelledError", "GeneratorExit"}

VARIABLES
    active_requests,        \* self._active_requests: id -> context
    completed_requests,     \* self._completed_requests, in dict (insertion) order
    lock,                   \* self._lock is held
    context,                \* complete_request's local `context` between pop and insert
    total_requests,
    successful_requests,
    failed_requests,
    timeout_requests,
    now,                    \* time.time()
    next_id,                \* ids generated so far + 1
    scope,                  \* per id: the track_request scope that owns it
    counted,                \* history: the counter increments each id caused, by method
    retired_by,             \* history: the method whose complete_request retired each id
    evicted,                \* history: how each id left the completed map
    missed,                 \* history: the last call that named an id that was not active
    snapshot,               \* a map a reader returned, as its caller holds it
    running,                \* self._running
    cleanup_task,           \* self._cleanup_task: a task, or 0 for None
    tasks,                  \* the _cleanup_loop tasks start() created
    stop_calls,             \* the stop() coroutines, by caller
    swept,                  \* history: flips with every _cleanup_old_requests
    starts,                 \* history: the start() calls since the last stop() call
    client,                 \* ProxiedHTTPClient: its configuration
    pool,                   \* flareprox_manager: enabled, and the rotations made
    call,                   \* one _make_request_with_retry: its locals and what it did
    stream,                 \* one ProxiedHTTPClient.stream generator and its consumer
    codec,                  \* the last call of the token codec: arguments and result
    auth,                   \* one QwenAuth: configuration, cache and what it did
    session_store,          \* the stored session record, or None
    proxies,                \* flareprox_manager.proxies: the deque of endpoints
    requests,               \* the _make_request_with_retry coroutines, by caller
    session_calls           \* the get_valid_session coroutines, by caller

stats == <<total_requests, successful_requests, failed_requests, timeout_requests>>
tracker == <<active_requests, completed_requests, stats>>
history == <<counted, retired_by, evicted>>
lifecycle == <<running, cleanup_task, tasks, stop_calls>>
http == <<client, pool, call>>
concurrent == <<proxies, requests, session_calls>>
more == <<stream, codec, auth, session_store, concurrent>>
vars == <<active_requests, completed_requests, lock, context, stats, now, next_id,
          scope, history, missed, snapshot, lifecycle, swept, starts, http, more>>

\* ------------------------------------------------------- RequestContext
NoContext == [request_id |-> 0]

NewContext(id) ==
    [request_id |-> id, status |-> "pending", end_time |-> 0, error |-> None,
     retry_count |-> 0]

is_completed(ctx) == ctx.status \in TerminalStatuses

NoScope == [state |-> "none", kind |-> None, raised |-> FALSE]

\* --------------------------------------------------------------- helpers
Min(a, b) == IF a < b THEN a ELSE b
Max(a, b) == IF a > b THEN a ELSE b

Range(s) == {s[i] : i \in 1..Len(s)}
IdsOf(s) == {s[i].request_id : i \in 1..Len(s)}
Occurrences(id, s) == Cardinality({i \in 1..Len(s) : s[i].request_id = id})

\* the items of s whose id is not in ids, order kept (del d[k] keeps dict order)
RECURSIVE Without(_, _)
Without(s, ids) ==
    IF s = <<>> THEN <<>>
    ELSE IF Head(s).request_id \in ids THEN Without(Tail(s), ids)
    ELSE <<Head(s)>> \o Without(Tail(s), ids)

\* sorted(items, key=lambda x: x[1].end_time or 0, reverse=...): a stable sort, and
\* with reverse=True items of equal key keep their original order too
SortKey(ctx) == ctx.end_time

InOrder(a, b, reverse) == IF reverse THEN SortKey(a) >= SortKey(b) ELSE SortKey(a) <= SortKey(b)

RECURSIVE InsertSorted(_, _, _)
InsertSorted(x, s, reverse) ==
    IF s = <<>> THEN <<x>>
    ELSE IF InOrder(Head(s), x, reverse) THEN <<Head(s)>> \o InsertSorted(x, Tail(s), reverse)
    ELSE <<x>> \o s

RECURSIVE sorted(_, _)
sorted(s, reverse) ==
    IF s = <<>> THEN <<>>
    ELSE InsertSorted(s[Len(s)], sorted(SubSeq(s, 1, Len(s) - 1), reverse), reverse)

\* s[:stop] of Python
SliceTo(s, stop) ==
    IF stop >= 0 THEN SubSeq(s, 1, Min(stop, Len(s)))
    ELSE SubSeq(s, 1, Max(Len(s) + stop, 0))

\* ------------------------------------------------------------ statistics
\* the if/elif chain that follows a status: the counters after counting `status`
CountStatus(status) ==
    [successful |-> successful_requests + (IF status = "success" THEN 1 ELSE 0),
     failed |-> failed_requests + (IF status = "failed" THEN 1 ELSE 0),
     timeout |-> timeout_requests + (IF status = "timeout" THEN 1 ELSE 0)]

SameCounts ==
    [successful |-> successful_requests, failed |-> failed_requests,
     timeout |-> timeout_requests]

SetCounts(c) ==
    /\ successful_requests' = c.successful
    /\ failed_requests' = c.failed
    /\ timeout_requests' = c.timeout

\* a success rate over the entries still in the completed map
SuccessRateOfCompleted ==
    IF Len(completed_requests) > 0
    THEN [num |-> successful_requests * 100, den |-> Len(completed_requests)]
    ELSE [num |-> 0, den |-> 1]

\* success_rate is a float in the code; here the exact fraction num/den
SuccessRate ==
    IF total_requests > 0
    THEN [num |-> successful_requests * 100, den |-> total_requests]
    ELSE [num |-> 0, den |-> 1]

get_stats ==
    [total_requests |-> total_requests,
     active_requests |-> Cardinality(DOMAIN active_requests),
     completed_requests |-> Len(completed_requests),
     successful_requests |-> successful_requests,
     failed_requests |-> failed_requests,
     timeout_requests |-> timeout_requests,
     success_rate |-> SuccessRate]

\* --------------------------------------------------------------- readers
\* every reader is `async with self._lock`: it runs only while the lock is free
ReaderCanRun == ~lock

get_context(id) ==
    IF id \in DOMAIN active_requests THEN active_requests[id]
    ELSE IF id \in IdsOf(completed_requests)
         THEN CHOOSE c \in Range(completed_requests) : c.request_id = id
         ELSE NoContext

get_active_requests == active_requests

\* the sort without reverse=True
get_completed_requests_oldest_first(limit) ==
    SliceTo(sorted(completed_requests, FALSE), limit)

get_completed_requests(limit) == SliceTo(sorted(completed_requests, TRUE), limit)

\* ------------------------------------------------------- capacity cap
max_tracked_requests == MaxTracked
max_request_age == MaxRequestAge

\* the cap enforced from the wrong end of the sort
EvictNewest(items) ==
    IF Len(items) > max_tracked_requests
    THEN LET sorted_requests == sorted(items, TRUE)
             to_remove == Len(sorted_requests) - max_tracked_requests
         IN Without(items, IdsOf(SliceTo(sorted_requests, to_remove)))
    ELSE items

\* lines 208-216: the completed map after the cap is enforced
EvictOldest(items) ==
    IF Len(items) > max_tracked_requests
    THEN LET sorted_requests == sorted(items, FALSE)
             to_remove == Len(sorted_requests) - max_tracked_requests
         IN Without(items, IdsOf(SliceTo(sorted_requests, to_remove)))
    ELSE items

\* a sweep that also removes the entries exactly max_request_age old
SweepOldInclusive(items, current_time) ==
    Without(items, {c.request_id : c \in {d \in Range(items) :
                        d.end_time # 0 /\ current_time - d.end_time >= max_request_age}})

SweepOld(items, current_time) ==
    Without(items, {c.request_id : c \in {d \in Range(items) :
                        d.end_time # 0 /\ current_time - d.end_time > max_request_age}})

\* d[key] = value of a dict: in place when the key is there, at the end otherwise
DictSet(items, ctx) ==
    IF ctx.request_id \in IdsOf(items)
    THEN [i \in 1..Len(items) |->
             IF items[i].request_id = ctx.request_id THEN ctx ELSE items[i]]
    ELSE Append(items, ctx)

\* ------------------------------------------------------------ track_request
\* the except clauses of track_request, by the class of what the block raised:
\* asyncio.TimeoutError is an Exception; CancelledError and GeneratorExit are
\* BaseException only (Python >= 3.8, setup.py) and match no clause
IsTimeoutError(kind) == kind = "TimeoutError"
IsException(kind) == kind \in {"TimeoutError", "Exception"}
Message(kind) == "boom"

\* track_request without its `except asyncio.TimeoutError` clause
TrackCompletionNoTimeoutClause(kind) ==
    IF kind = "return"
    THEN [completes |-> TRUE, status |-> "success", error |-> None, raised |-> FALSE]
    ELSE IF IsException(kind)
    THEN [completes |-> TRUE, status |-> "failed", error |-> Message(kind),
          raised |-> TRUE]
    ELSE [completes |-> FALSE, status |-> None, error |-> None, raised |-> TRUE]

\* a scope that retires its context only when the block returns
TrackCompletionOnReturnOnly(kind) ==
    IF kind = "return"
    THEN [completes |-> TRUE, status |-> "success", error |-> None, raised |-> FALSE]
    ELSE [completes |-> FALSE, status |-> None, error |-> None, raised |-> TRUE]

TrackCompletion(kind) ==
    IF kind = "return"
    THEN [completes |-> TRUE, status |-> "success", error |-> None, raised |-> FALSE]
    ELSE IF IsTimeoutError(kind)
    THEN [completes |-> TRUE, status |-> "timeout", error |-> "Request timeout",
          raised |-> TRUE]
    ELSE IF IsException(kind)
    THEN [completes |-> TRUE, status |-> "failed", error |-> Message(kind),
          raised |-> TRUE]
    ELSE [completes |-> FALSE, status |-> None, error |-> None, raised |-> TRUE]

\* ---------------------------------------------- what a reader's caller holds
\* get_active_requests returns self._active_requests.copy() and
\* get_completed_requests dict(sorted_requests[:limit]): a new dict whose values are
\* the tracker's own RequestContext objects.  `keys` is the dict's key set,
\* `returned` the field values of its contexts when the reader returned, `view`
\* their field values now, `touched` the changes the caller made.
NoSnapshot ==
    [op |-> "none", keys |-> {}, original_keys |-> {},
     returned |-> [i \in Ids |-> NoContext], view |-> [i \in Ids |-> NoContext],
     touched |-> 0]

\* ------------------------------------------------------ start / stop: tasks
Tasks == 1..MaxTasks
StopCallers == 1..MaxStopCallers

\* an asyncio.Task running _cleanup_loop: where its coroutine is, whether cancel()
\* was called on it and the CancelledError is still to be thrown into it
\* (Task._must_cancel, or its cancelled sleep)
NoTask == [state |-> "none", must_cancel |-> FALSE]

NoStop == [pc |-> "idle", task |-> 0]

\* ------------------------------------------------------- ProxiedHTTPClient
NoClient == [made |-> FALSE, max_retries |-> 0, retry_delay |-> 0]

NoPool == [enabled |-> FALSE, rotations |-> 0]

NoRequest ==
    [pc |-> "none", attempt |-> 0, last_error |-> None, id |-> 0, outcomes |-> <<>>,
     ids |-> <<>>, rotated |-> <<>>, sleeps |-> <<>>, result |-> None]

\* ------------------------------------------------------ token_compressor
\* A str is the sequence of its characters' code points, bytes the sequence of
\* their values.  A token is a str of base64 characters, each written as its
\* 6-bit value; three further characters stand for the rest of Unicode.
Separator == 124        \* '|'
Letter == 97            \* 'a'
Pad == 64               \* '='
Dash == 65              \* '-', an ASCII character outside the base64 alphabet
NonAscii == 66          \* a character outside ASCII

\* Optional[str]: None, as a value no str equals
NoneStr == <<-1>>

Strings(chars, n) == UNION {[1..k -> chars] : k \in 0..n}

RECURSIVE LittleEndian(_, _)
LittleEndian(n, width) ==
    IF width = 0 THEN <<>> ELSE <<n % 256>> \o LittleEndian(n \div 256, width - 1)

RECURSIVE FromLittleEndian(_)
FromLittleEndian(bytes) ==
    IF bytes = <<>> THEN 0 ELSE Head(bytes) + 256 * FromLittleEndian(Tail(bytes))

RECURSIVE Sum(_)
Sum(bytes) == IF bytes = <<>> THEN 0 ELSE Head(bytes) + Sum(Tail(bytes))

RECURSIVE StripZeros(_)
StripZeros(bytes) ==
    IF bytes # <<>> /\ Head(bytes) = 0 THEN StripZeros(Tail(bytes)) ELSE bytes

From(bytes, i) == SubSeq(bytes, i, Len(bytes))

\* what a step of the codec gives: a value, or the exception it raises
Value(v) == [raised |-> None, value |-> v]
Raise(kind) == [raised |-> kind, value |-> <<>>]

\* ---- base64.b64encode: three bytes make four characters, '=' fills the last
b64encode(bytes) ==
    LET byte(i) == IF i <= Len(bytes) THEN bytes[i] ELSE 0
    IN [k \in 1..(4 * ((Len(bytes) + 2) \div 3)) |->
           LET first == 3 * ((k - 1) \div 4) + 1
           IN CASE (k - 1) % 4 = 0 -> byte(first) \div 4
                [] (k - 1) % 4 = 1 -> (byte(first) % 4) * 16 + byte(first + 1) \div 16
                [] (k - 1) % 4 = 2 ->
                       IF first + 1 > Len(bytes) THEN Pad
                       ELSE (byte(first + 1) % 16) * 4 + byte(first + 2) \div 64
                [] (k - 1) % 4 = 3 ->
                       IF first + 2 > Len(bytes) THEN Pad ELSE byte(first + 2) % 64]

\* ---- base64.b64decode(s), validate=False: binascii.a2b_base64.  Characters
\* outside the alphabet are skipped.  quad_pos is the number of data characters
\* read so far, modulo 4; a '=' ends the input when it completes the quad
\* (quad_pos 3, or quad_pos 2 and the '=' before it), other '=' are skipped;
\* data that ends inside a quad is an error.
IsData(ch) == ch < Pad

a2b_base64(s) ==
    LET seen == SelectSeq(s, LAMBDA ch : ch <= Pad)
        quad_pos(i) == Cardinality({j \in 1..(i - 1) : IsData(seen[j])}) % 4
        ends(i) ==
            /\ seen[i] = Pad
            /\ \/ quad_pos(i) = 3
               \/ quad_pos(i) = 2 /\ i > 1 /\ seen[i - 1] = Pad
        done == \E i \in 1..Len(seen) : ends(i)
        last == IF done THEN (CHOOSE i \in 1..Len(seen) :
                                  ends(i) /\ \A j \in 1..(i - 1) : ~ends(j)) - 1
                ELSE Len(seen)
        data == SelectSeq(SubSeq(seen, 1, last), IsData)
        size == 3 * (Len(data) \div 4)
                    + (IF Len(data) % 4 = 0 THEN 0 ELSE (Len(data) % 4) - 1)
    IN IF ~done /\ Len(data) % 4 # 0 THEN Raise("binascii.Error")
       ELSE Value([k \in 1..size |->
                LET first == 4 * ((k - 1) \div 3) + 1
                IN CASE (k - 1) % 3 = 0 -> data[first] * 4 + data[first + 1] \div 16
                     [] (k - 1) % 3 = 1 ->
                            (data[first + 1] % 16) * 16 + data[first + 2] \div 4
                     [] (k - 1) % 3 = 2 -> (data[first + 2] % 4) * 64 + data[first + 3]])

\* a str argument is first encoded as ASCII
b64decode(s) ==
    IF \E i \in 1..Len(s) : s[i] = NonAscii THEN Raise("ValueError")
    ELSE a2b_base64(s)

\* ---- gzip.compress(data), mtime=None: a ten-byte header that carries the
\* time of the call, the deflate stream, CRC and length of the data.  The
\* deflate stream is written as one stored block and the CRC as the byte sum:
\* what is kept of zlib is that inflating inverts deflating and that the
\* trailer is checked.
GzipMagic == <<31, 139>>
Deflated == 8
StoredFinalBlock == 1
Checksum(data) == Sum(data)

GzipHeader(mtime) ==
    GzipMagic \o <<Deflated, 0>> \o LittleEndian(mtime, 4) \o <<2, 255>>

Deflate(data) ==
    <<StoredFinalBlock>> \o LittleEndian(Len(data), 2)
        \o LittleEndian(65535 - Len(data), 2) \o data

gzip_compress(data, mtime) ==
    GzipHeader(mtime) \o Deflate(data) \o LittleEndian(Checksum(data), 4)
        \o LittleEndian(Len(data), 4)

\* zlib.decompressobj(wbits=-15).decompress: the data, and what follows the
\* stream (unused_data); eof is FALSE when the stream is cut short
Inflate(bytes) ==
    IF Len(bytes) < 5 THEN [raised |-> None, eof |-> FALSE, data |-> <<>>, unused |-> <<>>]
    ELSE LET len == FromLittleEndian(SubSeq(bytes, 2, 3))
             nlen == FromLittleEndian(SubSeq(bytes, 4, 5))
         IN IF bytes[1] # StoredFinalBlock \/ len + nlen # 65535
            THEN [raised |-> "zlib.error", eof |-> FALSE, data |-> <<>>, unused |-> <<>>]
            ELSE IF Len(bytes) < 5 + len
            THEN [raised |-> None, eof |-> FALSE, data |-> <<>>, unused |-> <<>>]
            ELSE [raised |-> None, eof |-> TRUE, data |-> SubSeq(bytes, 6, 5 + len),
                  unused |-> From(bytes, 6 + len)]

\* gzip.decompress: member after member until the data is used up; zero bytes
\* between members are skipped
RECURSIVE gzip_decompress(_, _)
gzip_decompress(data, members) ==
    IF data = <<>> THEN Value(members)
    ELSE IF SubSeq(data, 1, Min(2, Len(data))) # GzipMagic THEN Raise("BadGzipFile")
    ELSE IF Len(data) < 10 THEN Raise("EOFError")
    ELSE IF data[3] # Deflated THEN Raise("BadGzipFile")
    ELSE LET do == Inflate(From(data, 11))
         IN IF do.raised # None THEN Raise(do.raised)
            ELSE IF ~do.eof \/ Len(do.unused) < 8 THEN Raise("EOFError")
            ELSE IF FromLittleEndian(SubSeq(do.unused, 1, 4)) # Checksum(do.data)
            THEN Raise("BadGzipFile")
            ELSE IF FromLittleEndian(SubSeq(do.unused, 5, 8)) # Len(do.data)
            THEN Raise("BadGzipFile")
            ELSE gzip_decompress(StripZeros(From(do.unused, 9)), members \o do.data)

\* str.encode('utf-8') and bytes.decode('utf-8'), on ASCII
utf8_encode(str) == str
utf8_decode(bytes) ==
    IF \E i \in 1..Len(bytes) : bytes[i] > 127 THEN Raise("UnicodeDecodeError")
    ELSE Value(bytes)

\* ---- compress_qwen_token, lines 41-55, called when the clock reads mtime
\* a token without the separator between its halves
CombinedUnseparated(web_api_token, ssxmod_itna) == web_api_token \o ssxmod_itna

\* line 43
Combined(web_api_token, ssxmod_itna) == web_api_token \o <<Separator>> \o ssxmod_itna

\* lines 47-51, for any text
Pack(text, mtime) == b64encode(gzip_compress(utf8_encode(text), mtime))

compress_qwen_token(web_api_token, ssxmod_itna, mtime) ==
    Pack(Combined(web_api_token, ssxmod_itna), mtime)

\* ---- decompress_qwen_token
Count(ch, str) == Cardinality({i \in 1..Len(str) : str[i] = ch})

\* str.split('|', 1) of a str that holds a separator
SplitOnce(str) ==
    LET i == CHOOSE j \in 1..Len(str) :
                 str[j] = Separator /\ \A k \in 1..(j - 1) : str[k] # Separator
    IN <<SubSeq(str, 1, i - 1), From(str, i + 1)>>

\* line 88, of what gzip.decompress gave: the text
Decode(decompressed) ==
    IF decompressed.raised # None THEN decompressed
    ELSE utf8_decode(decompressed.value)

\* line 88, of what b64decode gave
Decompress(decoded) ==
    IF decoded.raised # None THEN decoded
    ELSE Decode(gzip_decompress(decoded.value, <<>>))

\* lines 84-88: the decompressed text, or what was raised on the way
Unpack(compressed_token) == Decompress(b64decode(compressed_token))

\* the except clauses of lines 105-113: the last one takes every Exception.
\* First, a function with the two named clauses only.
CaughtByName(kind) == kind \in {"binascii.Error", "BadGzipFile"}

Caught(kind) ==
    kind \in {"binascii.Error", "BadGzipFile", "EOFError", "zlib.error", "ValueError",
              "UnicodeDecodeError"}

NoCredentials == [raised |-> None, web_api_token |-> NoneStr, ssxmod_itna |-> NoneStr]

\* lines 92-103, of the decompressed text
Split(decompressed) ==
    IF Count(Separator, decompressed) = 0 THEN NoCredentials
    ELSE LET parts == SplitOnce(decompressed)
         IN IF Len(parts) # 2 THEN NoCredentials
            ELSE [raised |-> None, web_api_token |-> parts[1], ssxmod_itna |-> parts[2]]

\* the try statement of lines 82-113, of what lines 84-88 gave
Try(decompressed) ==
    IF decompressed.raised # None
    THEN IF Caught(decompressed.raised) THEN NoCredentials
         ELSE [NoCredentials EXCEPT !.raised = decompressed.raised]
    ELSE Split(decompressed.value)

\* lines 82-113
decompress_qwen_token(compressed_token) == Try(Unpack(compressed_token))

\* a check of the two fields for truth instead of for None
ValidateTruthy(compressed_token) ==
    LET credentials == decompress_qwen_token(compressed_token)
    IN [raised |-> credentials.raised,
        value |-> /\ credentials.web_api_token \notin {NoneStr, <<>>}
                  /\ credentials.ssxmod_itna \notin {NoneStr, <<>>}]

\* lines 126-127
validate_compressed_token(compressed_token) ==
    LET credentials == decompress_qwen_token(compressed_token)
    IN [raised |-> credentials.raised,
        value |-> /\ credentials.web_api_token # NoneStr
                  /\ credentials.ssxmod_itna # NoneStr]

\* the last call of each function of the codec
NoCodec ==
    [op |-> "none", web_api_token |-> <<>>, ssxmod_itna |-> <<>>, mtime |-> 0,
     token |-> <<>>, again_mtime |-> 0, again |-> <<>>, kind |-> "none", text |-> <<>>,
     input |-> <<>>, result |-> NoCredentials, valid |-> [raised |-> None, value |-> FALSE]]

\* --------------------------------------------------------------- QwenAuth
\* Optional[Dict]: None, as a value no dict equals; a dict of cookies is the set
\* of its keys
NoDict == {None}
IsTrue(dict) == dict \notin {NoDict, {}}
IsTrueStr(str) == str \notin {NoneStr, <<>>}

\* what get_valid_session returns: None, or a dict with cookies and token
NoSessionData == [raised |-> None, session |-> FALSE, cookies |-> NoDict, token |-> NoneStr]
SessionData(cookies, token) ==
    [raised |-> None, session |-> TRUE, cookies |-> cookies, token |-> token]

\* the session file: nothing saved, or what save_session was given and when
NoSession == [saved |-> FALSE, cookies |-> NoDict, token |-> NoneStr, created_at |-> 0]

\* what a get_valid_session call finds when it starts: the cache, the session
\* file, and what the call before it returned, from where and when
NoEntry ==
    [cached_cookies |-> NoDict, cached_token |-> NoneStr, session_store |-> NoSession,
     result |-> NoSessionData, source |-> "none", returned_at |-> 0]

\* one QwenAuth: its configuration and cache; the get_valid_session call in
\* progress or last returned, the login() and _playwright_login() calls it
\* made, where its result came from; cached_at, the time the cached session
\* was made; called_at and entry, the time and the state the call started with
NoAuth ==
    [made |-> FALSE, bearer_token |-> NoneStr, cached_cookies |-> NoDict,
     cached_token |-> NoneStr, cached_at |-> 0, pc |-> "idle", force_refresh |-> FALSE,
     calls |-> 0, logins |-> 0, browser_logins |-> 0, outcome |-> None,
     source |-> "none", returned_at |-> 0, result |-> NoSessionData,
     called_at |-> 0, entry |-> NoEntry]

\* one call of stream(): where the generator is, the transport calls it made,
\* the chunks it yielded, what it raised
NoStream ==
    [pc |-> "none", id |-> 0, transport_calls |-> 0, chunks |-> 0,
     error |-> [kind |-> None, status |-> 0]]

\* coroutines that run beside each other on one event loop
Callers == {"first", "second"}

\* one _make_request_with_retry call beside others: where it is, its loop
\* variable, the endpoint its attempt goes through (line 131), and the endpoint
\* of the attempt before when that one failed and rotated the pool
NoAttempt ==
    [pc |-> "none", attempt |-> 0, id |-> 0, proxy_url |-> None, outcome |-> [kind |-> None, status |-> 0],
     failed_on |-> None]

\* one get_valid_session call beside others: where it is, the logins it
\* started, what it returned
NoSessionCall == [pc |-> "none", logins |-> 0, result |-> NoSessionData]

\* ------------------------------------------------------------------ Init
NoCall == [op |-> "none", id |-> 0, was |-> None, n |-> 0]

ZeroCount == [success |-> 0, failed |-> 0, timeout |-> 0]

\* the increments `method` made for id, over the three counters
Counted(id, method) ==
    counted[id][method].success + counted[id][method].failed + counted[id][method].timeout

Init ==
    /\ active_requests = <<>>
    /\ completed_requests = <<>>
    /\ lock = FALSE
    /\ context = NoContext
    /\ total_requests = 0
    /\ successful_requests = 0
    /\ failed_requests = 0
    /\ timeout_requests = 0
    /\ now = 1
    /\ next_id = 1
    /\ scope = [i \in Ids |-> NoScope]
    /\ counted = [i \in Ids |-> [update_context |-> ZeroCount, complete_request |-> ZeroCount]]
    /\ retired_by = [i \in Ids |-> None]
    /\ evicted = [i \in Ids |-> "no"]
    /\ missed = NoCall
    /\ snapshot = NoSnapshot
    /\ running = FALSE
    /\ cleanup_task = 0
    /\ tasks = [t \in Tasks |-> NoTask]
    /\ stop_calls = [c \in StopCallers |-> NoStop]
    /\ swept = 0
    /\ starts = 0
    /\ client = NoClient
    /\ pool = NoPool
    /\ call = NoRequest
    /\ stream = NoStream
    /\ codec = NoCodec
    /\ auth = NoAuth
    /\ session_store = NoSession
    /\ proxies = <<>>
    /\ requests = [c \in Callers |-> NoAttempt]
    /\ session_calls = [c \in Callers |-> NoSessionCall]

\* --------------------------------------------------------- create_context
generate_request_id == next_id

Insert(id) ==
    /\ active_requests' = [i \in DOMAIN active_requests \cup {id} |->
                              IF i = id THEN NewContext(id)
                              ELSE active_requests[i]]
    /\ total_requests' = total_requests + 1
    /\ next_id' = next_id + 1

CreateContext ==
    /\ ~lock
    /\ next_id <= MaxRequests
    /\ Insert(generate_request_id)
    /\ UNCHANGED <<completed_requests, lock, context, successful_requests,
                   failed_requests, timeout_requests, now, scope, history>>

\* --------------------------------------------------------- update_context
UpdatedContext(ctx, status, error) ==
    [ctx EXCEPT !.status = IF status # None THEN status ELSE @,
                !.end_time = IF status # None THEN now ELSE @,
                !.error = IF error # None THEN error ELSE @]

UpdateActive(id, status, error) ==
    IF id \in DOMAIN active_requests
    THEN [active_requests EXCEPT ![id] = UpdatedContext(@, status, error)]
    ELSE active_requests

\* update_context counting the status before it looks the id up
UpdateCountsUnchecked(id, status) ==
    IF status # None THEN CountStatus(status) ELSE SameCounts

UpdateCounts(id, status) ==
    IF id \in DOMAIN active_requests /\ status # None
    THEN CountStatus(status) ELSE SameCounts

UpdateContext(id, status, error) ==
    /\ ~lock
    /\ (status \in TerminalStatuses => Counted(id, "update_context") < MaxCounted)
    /\ active_requests' = UpdateActive(id, status, error)
    /\ SetCounts(UpdateCounts(id, status))
    /\ counted' = IF id \in DOMAIN active_requests /\ status \in TerminalStatuses
                  THEN [counted EXCEPT ![id].update_context[status] = @ + 1]
                  ELSE counted
    /\ UNCHANGED <<completed_requests, lock, context, total_requests, now, next_id,
                   scope, retired_by, evicted>>

\* -------------------------------------------------------- increment_retry
RetryActive(id) ==
    IF id \in DOMAIN active_requests
    THEN [active_requests EXCEPT ![id].retry_count = @ + 1]
    ELSE active_requests

IncrementRetry(id) ==
    /\ ~lock
    /\ (id \in DOMAIN active_requests => active_requests[id].retry_count < MaxRetryCount)
    /\ active_requests' = RetryActive(id)
    /\ UNCHANGED <<completed_requests, lock, context, stats, now, next_id, scope,
                   history>>

\* ------------------------------------------------------- complete_request
\* a complete_request that reads the context at line 191 without popping it
PopActiveKeepsIt(id) == active_requests

PopActive(id) == [i \in DOMAIN active_requests \ {id} |-> active_requests[i]]

\* lines 192-194
StampedContext(ctx, status, error) ==
    [ctx EXCEPT !.status = status, !.end_time = now, !.error = error]

CompleteActive(id) ==
    IF id \in DOMAIN active_requests THEN PopActive(id) ELSE active_requests

\* complete_request counting the status before it looks the id up
CompleteCountsUnchecked(id, status) == CountStatus(status)

CompleteCounts(id, status) ==
    IF id \in DOMAIN active_requests THEN CountStatus(status) ELSE SameCounts

\* lines 189-202: take the lock, pop, stamp and count; when the id was active the
\* lock stays held for the rest of the body (CompleteEnd)
CompleteBegin(id, status, error, by) ==
    /\ ~lock
    /\ active_requests' = CompleteActive(id)
    /\ SetCounts(CompleteCounts(id, status))
    /\ IF id \in DOMAIN active_requests
       THEN /\ context' = StampedContext(active_requests[id], status, error)
            /\ lock' = TRUE
            /\ retired_by' = [retired_by EXCEPT ![id] = by]
            /\ counted' = IF status \in TerminalStatuses
                          THEN [counted EXCEPT ![id].complete_request[status] = @ + 1]
                          ELSE counted
       ELSE UNCHANGED <<context, lock, retired_by, counted>>

CompleteRequest(id, status, error) ==
    /\ CompleteBegin(id, status, error, "complete_request")
    /\ UNCHANGED <<completed_requests, total_requests, now, next_id, scope, evicted>>

\* lines 205-216: insert, enforce the cap, release the lock; a track_request that
\* was waiting on this complete_request then leaves its scope
CompleteEnd ==
    /\ lock
    /\ LET inserted == DictSet(completed_requests, context)
           kept == EvictOldest(inserted)
           id == context.request_id
       IN /\ completed_requests' = kept
          /\ evicted' = [i \in Ids |->
                IF i \in IdsOf(inserted) \ IdsOf(kept) THEN "cap" ELSE evicted[i]]
          /\ scope' = IF scope[id].state = "closing"
                      THEN [scope EXCEPT ![id].state = "exited"]
                      ELSE scope
    /\ lock' = FALSE
    /\ context' = NoContext
    /\ UNCHANGED <<active_requests, stats, now, next_id, counted, retired_by, missed>>

\* ---------------------------------------------------------- track_request
\* line 255: create the context and yield it to the block
TrackEnter ==
    /\ ~lock
    /\ next_id <= MaxRequests
    /\ Insert(generate_request_id)
    /\ scope' = [scope EXCEPT ![generate_request_id] =
                    [state |-> "open", kind |-> None, raised |-> FALSE]]
    /\ UNCHANGED <<completed_requests, lock, context, successful_requests,
                   failed_requests, timeout_requests, now, history>>

\* lines 257-274: the block ends in `kind`
TrackExit(id, kind) ==
    /\ ~lock
    /\ scope[id].state = "open"
    /\ LET c == TrackCompletion(kind)
       IN /\ IF c.completes
             THEN CompleteBegin(id, c.status, c.error, "track_request")
             ELSE UNCHANGED <<context, active_requests, lock, counted, retired_by,
                              successful_requests, failed_requests, timeout_requests>>
          /\ scope' = [scope EXCEPT ![id] =
                [state |-> IF c.completes /\ id \in DOMAIN active_requests
                           THEN "closing" ELSE "exited",
                 kind |-> kind, raised |-> c.raised]]
    /\ UNCHANGED <<completed_requests, total_requests, now, next_id, evicted>>

\* --------------------------------------------------- _cleanup_old_requests
CleanupOldRequests ==
    /\ ~lock
    /\ LET kept == SweepOld(completed_requests, now)
       IN /\ completed_requests' = kept
          /\ evicted' = [i \in Ids |->
                IF i \in IdsOf(completed_requests) \ IdsOf(kept) THEN "sweep"
                ELSE evicted[i]]
    /\ UNCHANGED <<active_requests, lock, context, stats, now, next_id, scope,
                   counted, retired_by>>

\* ------------------------------------------------------------------ clock
Tick ==
    /\ ~lock
    /\ now < MaxTime
    /\ now' = now + 1
    /\ UNCHANGED <<active_requests, completed_requests, lock, context, stats, next_id,
                   scope, history>>

\* ------------------------------------------------------------------- Next
\* what the tracker's own steps leave alone
rest == <<snapshot, lifecycle, swept, starts, http, more>>

\* The tracker as the repository uses it: http_client.py reaches it only through
\* track_request, the sweep runs beside it, time passes.
Next ==
    \/ TrackEnter /\ UNCHANGED <<missed, rest>>
    \/ \E id \in Ids, k \in ExitKinds : TrackExit(id, k) /\ UNCHANGED <<missed, rest>>
    \/ CompleteEnd /\ UNCHANGED rest
    \/ CleanupOldRequests /\ UNCHANGED <<missed, rest>>
    \/ Tick /\ UNCHANGED <<missed, rest>>

Spec == Init /\ [][Next]_vars

\* `missed` records a call whose id is not in the active map, what the id was, and
\* with n, which flips, that one more such call was made
WhatItWas(id) ==
    IF id >= next_id THEN "never created"
    ELSE IF evicted[id] # "no" THEN "evicted"
    ELSE IF id \in IdsOf(completed_requests) THEN "completed"
    ELSE "active"

Missed(op, id) ==
    missed' = IF id \in DOMAIN active_requests THEN missed
              ELSE [op |-> op, id |-> id, was |-> WhatItWas(id), n |-> 1 - missed.n]

\* update_context, increment_retry and complete_request called with an id that is
\* not active: never created, completed or evicted.
StrayCall ==
    \E id \in Ids \ DOMAIN active_requests :
        \/ \E st \in UpdateStatusArgs, e \in ErrorArgs :
              UpdateContext(id, st, e) /\ Missed("update_context", id) /\ UNCHANGED rest
        \/ IncrementRetry(id) /\ Missed("increment_retry", id) /\ UNCHANGED rest
        \/ \E st \in CompleteStatusArgs, e \in ErrorArgs :
              CompleteRequest(id, st, e) /\ Missed("complete_request", id) /\ UNCHANGED rest

\* track_request scopes that return or fail, up to the capacity cap and beyond,
\* beside such calls
NextStray ==
    \/ TrackEnter /\ UNCHANGED <<missed, rest>>
    \/ \E id \in Ids, k \in {"return", "Exception"} : TrackExit(id, k) /\ UNCHANGED <<missed, rest>>
    \/ CompleteEnd /\ UNCHANGED rest
    \/ StrayCall

SpecStray == Init /\ [][NextStray]_vars

\* The methods that stamp and count, on a few contexts: create_context,
\* update_context and complete_request on every id created so far, with any
\* argument, in any order, within one reading of the clock.
Created == 1..(next_id - 1)

NextApi ==
    \/ next_id <= MaxApiRequests /\ CreateContext /\ UNCHANGED <<missed, rest>>
    \/ \E id \in Created, st \in UpdateStatusArgs, e \in ErrorArgs :
          UpdateContext(id, st, e) /\ UNCHANGED <<missed, rest>>
    \/ \E id \in Created, st \in CompleteStatusArgs, e \in ErrorArgs :
          CompleteRequest(id, st, e) /\ Missed("complete_request", id) /\ UNCHANGED rest
    \/ CompleteEnd /\ UNCHANGED rest

SpecApi == Init /\ [][NextApi]_vars

\* ------------------------------------------------- readers and their caller
\* the context stored for id, wherever it is (while complete_request moves it, its
\* local variable)
Stored(id) ==
    IF lock /\ context.request_id = id THEN context ELSE get_context(id)

\* the returned map's contexts are the tracker's objects: what the tracker does to
\* one of them shows through the map
Seen(held) ==
    [held EXCEPT !.view = [i \in Ids |->
        IF held.returned[i] # NoContext /\ Stored(i)' # NoContext
        THEN Stored(i)' ELSE @[i]]]

Held(op, contexts) ==
    [op |-> op, keys |-> DOMAIN contexts, original_keys |-> DOMAIN contexts,
     returned |-> [i \in Ids |-> IF i \in DOMAIN contexts THEN contexts[i] ELSE NoContext],
     view |-> [i \in Ids |-> IF i \in DOMAIN contexts THEN contexts[i] ELSE NoContext],
     touched |-> 0]

\* dict(sorted_requests[:limit])
AsDict(items) == [i \in IdsOf(items) |-> CHOOSE c \in Range(items) : c.request_id = i]

\* a reader returns a map to its caller
TakeSnapshot ==
    /\ ReaderCanRun
    /\ snapshot.op = "none"
    /\ \/ snapshot' = Held("get_active_requests", get_active_requests)
       \/ \E limit \in 1..MaxSnapshotRequests :
             snapshot' = Held("get_completed_requests",
                              AsDict(get_completed_requests(limit)))
    /\ UNCHANGED <<active_requests, completed_requests, lock, context, stats, now,
                   next_id, scope, history, missed, lifecycle, swept, starts, http, more>>

\* the caller writes a field of a context it finds in the map (here: error)
Edited(ctx) == [ctx EXCEPT !.error = "edited"]

CallerEditsContext(id) ==
    /\ ~lock
    /\ id \in snapshot.keys
    /\ snapshot.touched < MaxCallerWrites
    /\ snapshot' = [snapshot EXCEPT !.view[id] = Edited(@), !.touched = @ + 1]
    /\ active_requests' = IF id \in DOMAIN active_requests
                          THEN [active_requests EXCEPT ![id] = Edited(@)]
                          ELSE active_requests
    /\ completed_requests' = IF id \in IdsOf(completed_requests)
                             THEN DictSet(completed_requests, Edited(get_context(id)))
                             ELSE completed_requests
    /\ UNCHANGED <<lock, context, stats, now, next_id, scope, history, missed,
                   lifecycle, swept, starts, http, more>>

\* the caller deletes a key of the map
CallerDeletesKey(id) ==
    /\ id \in snapshot.keys
    /\ snapshot.touched < MaxCallerWrites
    /\ snapshot' = [snapshot EXCEPT !.keys = @ \ {id}, !.touched = @ + 1]
    /\ UNCHANGED <<active_requests, completed_requests, lock, context, stats, now,
                   next_id, scope, history, missed, lifecycle, swept, starts, http, more>>

\* the tracker's steps, seen through the map
Watched(step) ==
    /\ step
    /\ snapshot' = Seen(snapshot)
    /\ UNCHANGED <<missed, lifecycle, swept, starts, http, more>>

NextSnapshot ==
    \/ next_id <= MaxSnapshotRequests /\ Watched(TrackEnter)
    \/ \E id \in Ids, k \in {"return", "Exception"} : Watched(TrackExit(id, k))
    \/ Watched(CompleteEnd)
    \/ \E id \in DOMAIN active_requests : Watched(IncrementRetry(id))
    \/ TakeSnapshot
    \/ \E id \in Ids : CallerEditsContext(id)
    \/ \E id \in Ids : CallerDeletesKey(id)

SpecSnapshot == Init /\ [][NextSnapshot]_vars

\* ---------------------------------------------------------- the sweep loop
\* one _cleanup_old_requests, counted
Sweep ==
    /\ CleanupOldRequests
    /\ swept' = 1 - swept

\* the tracker with its sweep, on scopes that return: entries of several ages
NextSweep ==
    \/ TrackEnter /\ UNCHANGED <<missed, rest>>
    \/ \E id \in Ids : TrackExit(id, "return") /\ UNCHANGED <<missed, rest>>
    \/ CompleteEnd /\ UNCHANGED rest
    \/ Tick /\ UNCHANGED <<missed, rest>>
    \/ Sweep /\ UNCHANGED <<missed, snapshot, lifecycle, starts, http, more>>

SpecSweep == Init /\ [][NextSweep]_vars

\* Future.done() of a task
TaskDone(t) == tasks[t].state \in {"done", "cancelled"}

\* start(), lines 105-110; Task.cancel(): nothing on a task that is done,
\* otherwise a CancelledError is thrown into the coroutine when it next runs
\* the task start() creates next
NewTask == CHOOSE t \in Tasks : tasks[t].state = "none" /\ \A u \in 1..(t - 1) : tasks[u].state # "none"

\* a start() that does not look at self._running
StartTasksUnguarded ==
    IF \E t \in Tasks : tasks[t].state = "none"
    THEN [tasks EXCEPT ![NewTask] = [state |-> "created", must_cancel |-> FALSE]]
    ELSE tasks

StartTasks ==
    IF ~running
    THEN [tasks EXCEPT ![NewTask] = [state |-> "created", must_cancel |-> FALSE]]
    ELSE tasks

Start ==
    /\ running \/ \E t \in Tasks : tasks[t].state = "none"
    /\ starts < MaxStarts
    /\ tasks' = StartTasks
    /\ cleanup_task' = IF ~running THEN NewTask ELSE cleanup_task
    /\ running' = TRUE
    /\ starts' = starts + 1
    /\ UNCHANGED <<active_requests, completed_requests, lock, context, stats, now,
                   next_id, scope, history, missed, snapshot, stop_calls, swept, http,
                   more>>

\* a stop() that does not cancel the task
CancelNothing(t) == tasks[t]

Cancel(t) ==
    IF TaskDone(t) THEN tasks[t] ELSE [tasks[t] EXCEPT !.must_cancel = TRUE]

\* stop(), lines 114-118: clear the flag, cancel the task if there is one, await
\* it; awaiting a task that is done does not suspend
StopBegin(c) ==
    /\ stop_calls[c].pc = "idle"
    /\ running' = FALSE
    /\ starts' = 0
    /\ IF cleanup_task # 0
       THEN /\ tasks' = [tasks EXCEPT ![cleanup_task] = Cancel(cleanup_task)]
            /\ stop_calls' = [stop_calls EXCEPT ![c] =
                  [pc |-> IF TaskDone(cleanup_task) THEN "returned" ELSE "awaiting",
                   task |-> cleanup_task]]
       ELSE /\ tasks' = tasks
            /\ stop_calls' = [stop_calls EXCEPT ![c] = [pc |-> "returned", task |-> 0]]
    /\ UNCHANGED <<active_requests, completed_requests, lock, context, stats, now,
                   next_id, scope, history, missed, snapshot, cleanup_task, swept, http,
                   more>>

\* lines 118-121: the awaited task is done (its CancelledError, if it ended with
\* one, is swallowed), stop() returns
StopEnd(c) ==
    /\ stop_calls[c].pc = "awaiting"
    /\ TaskDone(stop_calls[c].task)
    /\ stop_calls' = [stop_calls EXCEPT ![c].pc = "returned"]
    /\ UNCHANGED <<active_requests, completed_requests, lock, context, stats, now,
                   next_id, scope, history, missed, snapshot, running, cleanup_task,
                   tasks, swept, starts, http, more>>

\* the caller is free to call stop() again
StopReturned(c) ==
    /\ stop_calls[c].pc = "returned"
    /\ stop_calls' = [stop_calls EXCEPT ![c] = NoStop]
    /\ UNCHANGED <<active_requests, completed_requests, lock, context, stats, now,
                   next_id, scope, history, missed, snapshot, running, cleanup_task,
                   tasks, swept, starts, http, more>>

\* line 278, `while self._running`: where the coroutine goes next
LoopTest == IF running THEN "sleeping" ELSE "done"

\* the first step of a _cleanup_loop task: cancelled before it ever ran, the
\* coroutine is never entered and the task ends cancelled
LoopStart(t) ==
    /\ tasks[t].state = "created"
    /\ tasks' = [tasks EXCEPT ![t] =
          IF tasks[t].must_cancel THEN [state |-> "cancelled", must_cancel |-> FALSE]
          ELSE [state |-> LoopTest, must_cancel |-> FALSE]]
    /\ UNCHANGED <<active_requests, completed_requests, lock, context, stats, now,
                   next_id, scope, history, missed, snapshot, running, cleanup_task,
                   stop_calls, swept, starts, http, more>>

\* lines 280-281: the sleep is over, one sweep, back to the loop test
LoopWake(t) ==
    /\ tasks[t].state = "sleeping"
    /\ ~tasks[t].must_cancel
    /\ Sweep
    /\ tasks' = [tasks EXCEPT ![t].state = LoopTest]
    /\ UNCHANGED <<missed, snapshot, running, cleanup_task, stop_calls, starts, http,
                   more>>

\* lines 282-283: the CancelledError arrives in the sleep, the loop breaks
LoopCancelled(t) ==
    /\ tasks[t].state = "sleeping"
    /\ tasks[t].must_cancel
    /\ tasks' = [tasks EXCEPT ![t] = [state |-> "done", must_cancel |-> FALSE]]
    /\ UNCHANGED <<active_requests, completed_requests, lock, context, stats, now,
                   next_id, scope, history, missed, snapshot, running, cleanup_task,
                   stop_calls, swept, starts, http, more>>

\* start() and stop() called in any order by coroutines of one event loop, the loop
\* tasks running between them (what a sweep removes is SpecSweep's subject)
NextLifecycle ==
    \/ Start
    \/ \E c \in StopCallers : StopBegin(c)
    \/ \E c \in StopCallers : StopEnd(c)
    \/ \E c \in StopCallers : StopReturned(c)
    \/ \E t \in Tasks : LoopStart(t)
    \/ \E t \in Tasks : LoopWake(t)
    \/ \E t \in Tasks : LoopCancelled(t)

SpecLifecycle == Init /\ [][NextLifecycle]_vars

\* the event loop runs every task that is ready: a task that was created or
\* cancelled gets its step, a stop() whose task is done is resumed
LifecycleFairness ==
    /\ \A t \in Tasks : WF_vars(LoopStart(t)) /\ WF_vars(LoopCancelled(t))
    /\ \A c \in StopCallers : WF_vars(StopEnd(c))

SpecLifecycleFair == SpecLifecycle /\ LifecycleFairness

\* ------------------------------------------- _make_request_with_retry
\* What the transport does in one attempt: a response with a status code, or an
\* exception of httpx.  httpx.TimeoutException and httpx.ConnectError are the two
\* classes of line 178; httpx.ReadError stands for every other Exception.
Statuses == {200, 304, 404, 503}

Response(status) == [kind |-> "Response", status |-> status]
Raised(kind) == [kind |-> kind, status |-> 0]

Outcomes ==
    {Response(st) : st \in Statuses}
        \cup {Raised(k) : k \in {"TimeoutException", "ConnectError", "ReadError"}}

NoError == Raised(None)
GenericHTTPError == Raised("HTTPError")

\* response.raise_for_status() of httpx >= 0.25 (setup.py): returns on a 2xx
\* status, raises httpx.HTTPStatusError on any other
IsSuccess(o) == o.kind = "Response" /\ 200 <= o.status /\ o.status < 300

\* what the body of the `async with` of lines 134-161 raises
ErrorOf(o) ==
    IF o.kind = "Response" THEN [kind |-> "HTTPStatusError", status |-> o.status]
    ELSE o

\* how track_request sees the end of its block: none of these errors is an
\* asyncio.TimeoutError.  First, a block that swallows what the transport raised.
ScopeExitReturn(o) == "return"

ScopeExit(o) == IF IsSuccess(o) THEN "return" ELSE "Exception"

\* the except clauses of lines 163-194
IsHTTPStatusError(e) == e.kind = "HTTPStatusError"

\* a loop without the test of line 171
IsClientErrorNever(e) == FALSE

IsClientError(e) == IsHTTPStatusError(e) /\ 400 <= e.status /\ e.status < 500
IsNetworkError(e) == e.kind \in {"TimeoutException", "ConnectError"}

\* lines 171-176 and 186-187: the clauses that reach a proxies.rotate(-1)
Rotates(e) ==
    \/ IsHTTPStatusError(e) /\ ~IsClientError(e)
    \/ IsNetworkError(e)

RECURSIVE Pow2(_)
Pow2(n) == IF n = 0 THEN 1 ELSE 2 * Pow2(n - 1)

\* a backoff that does not grow
DelayConstant(attempt) == client.retry_delay

\* line 198
Delay(attempt) == client.retry_delay * Pow2(attempt)

\* line 197
SleepsAfter(attempt) == attempt < client.max_retries - 1

\* a loop that makes one attempt more than max_retries
AttemptsLeftInclusive(attempt) == attempt <= client.max_retries

\* line 128: range(self.max_retries)
AttemptsLeft(attempt) == attempt < client.max_retries

\* a loop that forgets the error of its last attempt
FinalErrorGeneric(last_error) == GenericHTTPError

\* lines 204-206
FinalError(last_error) == IF last_error # NoError THEN last_error ELSE GenericHTTPError

\* ProxiedHTTPClient(max_retries=..., retry_delay=...) entered as a context
\* manager, the rotation pool enabled or not
HttpConstruct ==
    /\ ~client.made
    /\ \E mr \in 0..MaxRetries, rd \in 1..MaxRetryDelay, en \in BOOLEAN :
          /\ client' = [made |-> TRUE, max_retries |-> mr, retry_delay |-> rd]
          /\ pool' = [enabled |-> en, rotations |-> 0]
    /\ UNCHANGED <<active_requests, completed_requests, lock, context, stats, now,
                   next_id, scope, history, missed, snapshot, lifecycle, swept,
                   starts, call, more>>

\* lines 123-126
HttpCall ==
    /\ client.made
    /\ call.pc = "none"
    /\ call' = [NoRequest EXCEPT !.pc = "loop", !.last_error = NoError]
    /\ UNCHANGED <<active_requests, completed_requests, lock, context, stats, now,
                   next_id, scope, history, missed, snapshot, lifecycle, swept,
                   starts, client, pool, more>>

\* lines 128-138: one more attempt, its tracked scope entered
HttpAttempt ==
    /\ call.pc = "loop"
    /\ AttemptsLeft(call.attempt)
    /\ TrackEnter
    /\ call' = [call EXCEPT !.pc = "request", !.id = generate_request_id,
                            !.ids = Append(@, generate_request_id)]
    /\ UNCHANGED <<missed, snapshot, lifecycle, swept, starts, client, pool, more>>

\* lines 147-161: the transport answers or raises; the scope is left accordingly
HttpResponse(o) ==
    /\ call.pc = "request"
    /\ TrackExit(call.id, ScopeExit(o))
    /\ call' = [call EXCEPT !.pc = "exit", !.outcomes = Append(@, o)]
    /\ UNCHANGED <<missed, snapshot, lifecycle, swept, starts, client, pool, more>>

\* lines 161-200, once the scope has retired its context: return the response, or
\* the except clause for what was raised and then the backoff test
HttpHandle ==
    /\ call.pc = "exit"
    /\ scope[call.id].state = "exited"
    /\ LET o == call.outcomes[Len(call.outcomes)]
           e == ErrorOf(o)
           rotates == ~IsClientError(e) /\ Rotates(e) /\ pool.enabled
       IN IF IsSuccess(o)
          THEN /\ call' = [call EXCEPT !.pc = "returned", !.result = o]
               /\ pool' = pool
          ELSE IF IsClientError(e)
          THEN /\ call' = [call EXCEPT !.pc = "raised", !.last_error = e, !.result = e,
                                       !.rotated = Append(@, 0)]
               /\ pool' = pool
          ELSE /\ pool' = [pool EXCEPT !.rotations = IF rotates THEN @ + 1 ELSE @]
               /\ call' = [call EXCEPT
                     !.last_error = e,
                     !.rotated = Append(@, IF rotates THEN 1 ELSE 0),
                     !.pc = IF SleepsAfter(call.attempt) THEN "sleep" ELSE "loop",
                     !.attempt = IF SleepsAfter(call.attempt) THEN @ ELSE @ + 1]
    /\ UNCHANGED <<active_requests, completed_requests, lock, context, stats, now,
                   next_id, scope, history, missed, snapshot, lifecycle, swept,
                   starts, client, more>>

\* line 200: the backoff sleep, then the next iteration
HttpSleep ==
    /\ call.pc = "sleep"
    /\ call' = [call EXCEPT !.pc = "loop", !.attempt = @ + 1,
                            !.sleeps = Append(@, Delay(call.attempt))]
    /\ UNCHANGED <<active_requests, completed_requests, lock, context, stats, now,
                   next_id, scope, history, missed, snapshot, lifecycle, swept,
                   starts, client, pool, more>>

\* lines 202-206: the loop is over without a return
HttpExhausted ==
    /\ call.pc = "loop"
    /\ ~AttemptsLeft(call.attempt)
    /\ call' = [call EXCEPT !.pc = "raised", !.result = FinalError(call.last_error)]
    /\ UNCHANGED <<active_requests, completed_requests, lock, context, stats, now,
                   next_id, scope, history, missed, snapshot, lifecycle, swept,
                   starts, client, pool, more>>

\* one client, one call of _make_request_with_retry, any transport
NextHttp ==
    \/ HttpConstruct
    \/ HttpCall
    \/ HttpAttempt
    \/ \E o \in Outcomes : HttpResponse(o)
    \/ CompleteEnd /\ UNCHANGED rest
    \/ HttpHandle
    \/ HttpSleep
    \/ HttpExhausted

SpecHttp == Init /\ [][NextHttp]_vars

\* ------------------------------------------------------------------ stream
\* how track_request sees the end of the block of lines 252-272: the except
\* clause of 270-272 logs and re-raises.  First, a clause that swallows the error.
StreamBodyExitSwallowed(e) == "return"

StreamBodyExit(e) == IF e = NoError THEN "return" ELSE "Exception"

\* what aiter_bytes raises when the connection breaks or stalls mid-stream
StreamErrors == {Raised("ReadError"), Raised("TimeoutException")}

\* what ends the generator from outside: aclose() or garbage collection of a
\* generator suspended at `yield chunk`, cancellation of the consuming task
StreamAborts == {"GeneratorExit", "CancelledError"}

\* lines 241-261, at the consumer's first __anext__: the tracked scope is
\* entered and the request is sent
StreamCall ==
    /\ client.made
    /\ stream.pc = "none"
    /\ TrackEnter
    /\ stream' = [stream EXCEPT !.pc = "open", !.id = generate_request_id,
                                !.transport_calls = @ + 1]
    /\ UNCHANGED <<missed, snapshot, lifecycle, swept, starts, http, codec, auth,
                   session_store, concurrent>>

\* lines 257-262: the transport answers; raise_for_status passes, or the block
\* ends with what it or the transport raised
StreamOpen(o) ==
    /\ stream.pc = "open"
    /\ IF IsSuccess(o)
       THEN /\ stream' = [stream EXCEPT !.pc = "iterating"]
            /\ UNCHANGED <<active_requests, completed_requests, lock, context, stats,
                           now, next_id, scope, history>>
       ELSE /\ TrackExit(stream.id, StreamBodyExit(ErrorOf(o)))
            /\ stream' = [stream EXCEPT !.pc = "exit", !.error = ErrorOf(o)]
    /\ UNCHANGED <<missed, snapshot, lifecycle, swept, starts, http, codec, auth,
                   session_store, concurrent>>

\* lines 264-266: a chunk is yielded, the generator is suspended
StreamChunk ==
    /\ stream.pc = "iterating"
    /\ stream.chunks < MaxChunks
    /\ stream' = [stream EXCEPT !.pc = "yielded", !.chunks = @ + 1]
    /\ UNCHANGED <<active_requests, completed_requests, lock, context, stats, now,
                   next_id, scope, history, missed, snapshot, lifecycle, swept, starts,
                   http, codec, auth, session_store,
                   concurrent>>

\* the consumer asks for the next chunk
StreamNext ==
    /\ stream.pc = "yielded"
    /\ stream' = [stream EXCEPT !.pc = "iterating"]
    /\ UNCHANGED <<active_requests, completed_requests, lock, context, stats, now,
                   next_id, scope, history, missed, snapshot, lifecycle, swept, starts,
                   http, codec, auth, session_store,
                   concurrent>>

\* line 264 raises: lines 270-274
StreamError(e) ==
    /\ stream.pc = "iterating"
    /\ TrackExit(stream.id, StreamBodyExit(e))
    /\ stream' = [stream EXCEPT !.pc = "exit", !.error = e]
    /\ UNCHANGED <<missed, snapshot, lifecycle, swept, starts, http, codec, auth,
                   session_store, concurrent>>

\* line 264: no more chunks; line 268, and the scope is left normally
StreamEnd ==
    /\ stream.pc = "iterating"
    /\ TrackExit(stream.id, StreamBodyExit(NoError))
    /\ stream' = [stream EXCEPT !.pc = "exit"]
    /\ UNCHANGED <<missed, snapshot, lifecycle, swept, starts, http, codec, auth,
                   session_store, concurrent>>

\* the generator is closed at `yield chunk`, or its task is cancelled while it
\* awaits the transport: neither is an Exception
StreamAbort(kind) ==
    /\ \/ kind = "GeneratorExit" /\ stream.pc = "yielded"
       \/ kind = "CancelledError" /\ stream.pc \in {"open", "iterating"}
    /\ TrackExit(stream.id, kind)
    /\ stream' = [stream EXCEPT !.pc = "closed", !.error = Raised(kind)]
    /\ UNCHANGED <<missed, snapshot, lifecycle, swept, starts, http, codec, auth,
                   session_store, concurrent>>

\* the scope has retired its context: the generator ends (StopAsyncIteration) or
\* the error reaches the consumer
StreamSettle ==
    /\ stream.pc = "exit"
    /\ scope[stream.id].state = "exited"
    /\ stream' = [stream EXCEPT !.pc = IF stream.error = NoError THEN "done" ELSE "raised"]
    /\ UNCHANGED <<active_requests, completed_requests, lock, context, stats, now,
                   next_id, scope, history, missed, snapshot, lifecycle, swept, starts,
                   http, codec, auth, session_store,
                   concurrent>>

\* one client, one stream() generator, any transport, any consumer
NextStream ==
    \/ HttpConstruct
    \/ StreamCall
    \/ \E o \in Outcomes : StreamOpen(o)
    \/ StreamChunk
    \/ StreamNext
    \/ \E e \in StreamErrors : StreamError(e)
    \/ StreamEnd
    \/ \E kind \in StreamAborts : StreamAbort(kind)
    \/ CompleteEnd /\ UNCHANGED rest
    \/ StreamSettle

SpecStream == Init /\ [][NextStream]_vars

\* ------------------------------------------------------------- the codec
\* what the tracker, the sweep loop and the HTTP client own
core == <<active_requests, completed_requests, lock, context, stats, now, next_id,
          scope, history, missed, snapshot, lifecycle, swept, starts, http>>

Credentials == Strings({Letter, Separator}, MaxCredentialLen)
Payloads == Strings({Letter, Separator}, MaxPayloadLen)

\* "not-a-valid-token"
NotAValidToken ==
    <<39, 40, 45, Dash, 26, Dash, 47, 26, 37, 34, 29, Dash, 45, 40, 36, 30, 39>>

\* strings nobody compressed: the empty one, "not-a-valid-token", "H4s=" (the
\* gzip magic and nothing else), "QQ==", "====", and the short ones
GarbageTokens ==
    {NotAValidToken, <<7, 56, 44, Pad>>, <<16, 16, Pad, Pad>>, <<Pad, Pad, Pad, Pad>>}
        \cup Strings({0, Pad, Dash, NonAscii}, 2)

\* what can happen to a token on its way back
Damages ==
    {"cut", "header", "magic", "payload", "block", "twice", "zeros", "tail", "dash",
     "nonascii", "short"}

Damaged(token, damage) ==
    LET raw == b64decode(token).value
    IN CASE damage = "cut" -> b64encode(SubSeq(raw, 1, Len(raw) - 1))
         [] damage = "header" -> b64encode(SubSeq(raw, 1, 5))
         [] damage = "magic" -> b64encode(<<31, 0>> \o From(raw, 3))
         [] damage = "payload" -> b64encode([raw EXCEPT ![16] = Letter + 1])
         [] damage = "block" -> b64encode([raw EXCEPT ![11] = 7])
         [] damage = "twice" -> b64encode(raw \o raw)
         [] damage = "zeros" -> b64encode(raw \o <<0, 0>>)
         [] damage = "tail" -> b64encode(raw \o <<Letter>>)
         [] damage = "dash" -> <<Dash>> \o token
         [] damage = "nonascii" -> Append(token, NonAscii)
         [] damage = "short" -> SubSeq(token, 1, Len(token) - 1)

\* compress_qwen_token(web_api_token, ssxmod_itna), now
CodecEncode(web_api_token, ssxmod_itna) ==
    /\ codec.op = "none"
    /\ codec' = [codec EXCEPT !.op = "encoded", !.web_api_token = web_api_token,
                              !.ssxmod_itna = ssxmod_itna, !.mtime = now,
                              !.token = compress_qwen_token(web_api_token, ssxmod_itna, now)]
    /\ UNCHANGED <<core, stream, auth, session_store, concurrent>>

\* the same call once more, now
CodecEncodeAgain ==
    /\ codec.op = "encoded"
    /\ codec' = [codec EXCEPT
          !.op = "encoded twice", !.again_mtime = now,
          !.again = compress_qwen_token(codec.web_api_token, codec.ssxmod_itna, now)]
    /\ UNCHANGED <<core, stream, auth, session_store, concurrent>>

\* decompress_qwen_token(input) and validate_compressed_token(input)
Decoded(kind, text, input) ==
    [codec EXCEPT !.op = "decoded", !.kind = kind, !.text = text, !.input = input,
                  !.result = decompress_qwen_token(input),
                  !.valid = validate_compressed_token(input)]

\* ... of the token compress_qwen_token returned
CodecDecodeToken ==
    /\ codec.op = "encoded"
    /\ codec' = Decoded("token", Combined(codec.web_api_token, codec.ssxmod_itna),
                        codec.token)
    /\ UNCHANGED <<core, stream, auth, session_store, concurrent>>

\* ... of that token, damaged
CodecDecodeDamaged(damage) ==
    /\ codec.op = "encoded"
    /\ codec' = Decoded(damage, Combined(codec.web_api_token, codec.ssxmod_itna),
                        Damaged(codec.token, damage))
    /\ UNCHANGED <<core, stream, auth, session_store, concurrent>>

\* ... of a text somebody compressed the same way
CodecDecodePacked(text) ==
    /\ codec.op = "none"
    /\ codec' = Decoded("packed", text, Pack(text, now))
    /\ UNCHANGED <<core, stream, auth, session_store, concurrent>>

\* ... of a string nobody compressed
CodecDecodeGarbage(input) ==
    /\ codec.op = "none"
    /\ codec' = Decoded("garbage", <<>>, input)
    /\ UNCHANGED <<core, stream, auth, session_store, concurrent>>

NextCodec ==
    \/ Tick /\ UNCHANGED <<missed, rest>>
    \/ \E web_api_token \in Credentials, ssxmod_itna \in Credentials :
          CodecEncode(web_api_token, ssxmod_itna)
    \/ CodecEncodeAgain
    \/ CodecDecodeToken
    \/ \E damage \in Damages : CodecDecodeDamaged(damage)
    \/ \E text \in Payloads : CodecDecodePacked(text)
    \/ \E input \in GarbageTokens : CodecDecodeGarbage(input)

SpecCodec == Init /\ [][NextCodec]_vars

\* --------------------------------------------------------- the session
\* a token somebody extracted in the browser and put into the configuration
ExplicitToken == compress_qwen_token(<<Letter>>, <<Letter>>, 0)

\* config.get("bearer_token") or config.get("token"), line 152
BearerTokens == {NoneStr, NotAValidToken, ExplicitToken}

\* the session an earlier run of the program logged in for and saved
EarlierSession ==
    [saved |-> TRUE, cookies |-> {"ssxmod_itna"},
     token |-> compress_qwen_token(<<Letter, Letter>>, <<Letter>>, 0), created_at |-> now]

\* SessionStore: is_valid(max_age), load_session(), save_session(...)
is_valid(max_age) == session_store.saved /\ now - session_store.created_at <= max_age
load_session == session_store

\* a save_session that writes nothing
SaveSessionNothing(cookies, token) == session_store

save_session(cookies, token) ==
    [saved |-> TRUE, cookies |-> cookies, token |-> token, created_at |-> now]

\* QwenAuth.login, lines 175-185: the configured token is used if it validates
UsesBearerToken ==
    /\ IsTrueStr(auth.bearer_token)
    /\ validate_compressed_token(auth.bearer_token).value

\* _playwright_login: what the browser session ends with
BrowserOutcomes == {"credentials", "no token", "no cookie", "timeout"}

\* lines 295-325: both credentials found, compressed now, and the cookies; or
\* an Exception
PlaywrightLogin(outcome) ==
    IF outcome = "credentials"
    THEN Value(SessionData({"ssxmod_itna"}, compress_qwen_token(<<Letter>>, <<Letter>>, now)))
    ELSE Raise("Exception")

\* lines 106-108: a failed login.  First, one that answers with the cache.
SessionOnFailureCached == SessionData(auth.cached_cookies, auth.cached_token)

SessionOnFailure == NoSessionData

\* get_token, lines 117-118
get_token(session) == IF session.session THEN session.token ELSE NoneStr

\* QwenAuth(config), with or without a session file from an earlier run
AuthConstruct ==
    /\ ~auth.made
    /\ \E bearer_token \in BearerTokens, stored \in {NoSession, EarlierSession} :
          /\ auth' = [NoAuth EXCEPT !.made = TRUE, !.bearer_token = bearer_token]
          /\ session_store' = stored
    /\ UNCHANGED <<core, stream, codec, concurrent>>

\* lines 89-108: cache what login returned (90-91), save it (94-98) and return
\* it (101-104); when save_session raises, lines 106-108
LoggedIn(this, auth_data, source, stored) ==
    LET cached == [this EXCEPT !.cached_cookies = auth_data.cookies,
                               !.cached_token = auth_data.token, !.cached_at = now,
                               !.pc = "returned", !.returned_at = now]
    IN IF stored
       THEN /\ auth' = [cached EXCEPT
                  !.source = source,
                  !.result = SessionData(auth_data.cookies, auth_data.token)]
            /\ session_store' = save_session(auth_data.cookies, auth_data.token)
       ELSE /\ auth' = [cached EXCEPT !.result = SessionOnFailure]
            /\ UNCHANGED session_store

\* get_valid_session(force_refresh), lines 66-87, up to its return or to the
\* browser login
GetValidSession(force_refresh, stored) ==
    /\ auth.made
    /\ auth.pc \in {"idle", "returned"}
    /\ auth.calls < MaxSessionCalls
    /\ LET this == [auth EXCEPT
                  !.force_refresh = force_refresh, !.calls = @ + 1,
                  !.logins = 0, !.browser_logins = 0, !.outcome = None,
                  !.source = "none", !.result = NoSessionData, !.called_at = now,
                  !.entry = [cached_cookies |-> auth.cached_cookies,
                             cached_token |-> auth.cached_token,
                             session_store |-> session_store, result |-> auth.result,
                             source |-> auth.source, returned_at |-> auth.returned_at]]
       IN IF ~force_refresh /\ IsTrue(auth.cached_cookies)
          THEN /\ auth' = [this EXCEPT
                     !.pc = "returned", !.source = "cache", !.returned_at = now,
                     !.result = SessionData(auth.cached_cookies, auth.cached_token)]
               /\ UNCHANGED session_store
          ELSE IF ~force_refresh /\ is_valid(MaxSessionAge) /\ load_session.saved
          THEN /\ auth' = [this EXCEPT
                     !.cached_cookies = load_session.cookies,
                     !.cached_token = load_session.token,
                     !.cached_at = load_session.created_at,
                     !.pc = "returned", !.source = "store", !.returned_at = now,
                     !.result = SessionData(load_session.cookies, load_session.token)]
               /\ UNCHANGED session_store
          ELSE IF UsesBearerToken
          THEN LoggedIn([this EXCEPT !.logins = 1],
                        SessionData({}, auth.bearer_token), "bearer_token", stored)
          ELSE /\ auth' = [this EXCEPT !.logins = 1, !.browser_logins = 1,
                                       !.pc = "browser"]
               /\ UNCHANGED session_store
    /\ UNCHANGED <<core, stream, codec, concurrent>>

\* _playwright_login ends; lines 87-108
BrowserDone(outcome, stored) ==
    /\ auth.pc = "browser"
    /\ LET auth_data == PlaywrightLogin(outcome)
           this == [auth EXCEPT !.outcome = outcome]
       IN IF auth_data.raised = None
          THEN LoggedIn(this, auth_data.value, "login", stored)
          ELSE /\ auth' = [this EXCEPT !.pc = "returned", !.returned_at = now,
                                       !.result = SessionOnFailure]
               /\ UNCHANGED session_store
    /\ UNCHANGED <<core, stream, codec, concurrent>>

NextAuth ==
    \/ AuthConstruct
    \/ \E force_refresh \in BOOLEAN, stored \in BOOLEAN :
          GetValidSession(force_refresh, stored)
    \/ \E outcome \in BrowserOutcomes, stored \in BOOLEAN : BrowserDone(outcome, stored)
    \/ Tick /\ UNCHANGED <<missed, rest>>

SpecAuth == Init /\ [][NextAuth]_vars

\* ------------------------------------------- calls that share the pool
\* Several _make_request_with_retry calls of one client run on one event loop
\* and share flareprox_manager.proxies; each may be suspended at its awaits: the
\* transport call, the tracker's lock, the backoff sleep.
Pools == {<<"e1", "e2">>, <<"e1", "e2", "e3">>}

\* FlareProxManager.get_proxy_url: the head of the rotation
get_proxy_url == Head(proxies)

\* collections.deque.rotate(-1): the first entry goes to the end
rotate(deque) == IF deque = <<>> THEN deque ELSE Tail(deque) \o <<Head(deque)>>

\* what the calls of this section leave alone
beside == <<missed, snapshot, lifecycle, swept, starts, call, stream, codec, auth,
            session_store, session_calls>>

\* the client, its pool enabled and filled
PoolConstruct ==
    /\ ~client.made
    /\ client' = [made |-> TRUE, max_retries |-> MaxPoolRetries, retry_delay |-> 1]
    /\ pool' = [enabled |-> TRUE, rotations |-> 0]
    /\ \E deque \in Pools : proxies' = deque
    /\ UNCHANGED <<active_requests, completed_requests, lock, context, stats, now,
                   next_id, scope, history, requests, beside>>

\* lines 123-126
PoolCall(c) ==
    /\ client.made /\ proxies # <<>>
    /\ requests[c].pc = "none"
    /\ requests' = [requests EXCEPT ![c].pc = "loop"]
    /\ UNCHANGED <<active_requests, completed_requests, lock, context, stats, now,
                   next_id, scope, history, client, pool, proxies, beside>>

\* lines 128-138: the endpoint is read from the pool, the tracked scope entered
PoolAttempt(c) ==
    /\ requests[c].pc = "loop"
    /\ AttemptsLeft(requests[c].attempt)
    /\ TrackEnter
    /\ requests' = [requests EXCEPT ![c].pc = "request", ![c].id = generate_request_id,
                                    ![c].proxy_url = get_proxy_url]
    /\ UNCHANGED <<client, pool, proxies, beside>>

\* lines 147-161: the transport answers or raises; the scope is left accordingly
PoolResponse(c, o) ==
    /\ requests[c].pc = "request"
    /\ TrackExit(requests[c].id, ScopeExit(o))
    /\ requests' = [requests EXCEPT ![c].pc = "exit", ![c].outcome = o]
    /\ UNCHANGED <<client, pool, proxies, beside>>

\* lines 161-200, once the scope has retired its context
PoolHandle(c) ==
    /\ requests[c].pc = "exit"
    /\ scope[requests[c].id].state = "exited"
    /\ LET o == requests[c].outcome
           e == ErrorOf(o)
           rotates == ~IsClientError(e) /\ Rotates(e) /\ pool.enabled
       IN IF IsSuccess(o)
          THEN /\ requests' = [requests EXCEPT ![c].pc = "returned"]
               /\ UNCHANGED <<pool, proxies>>
          ELSE IF IsClientError(e)
          THEN /\ requests' = [requests EXCEPT ![c].pc = "raised"]
               /\ UNCHANGED <<pool, proxies>>
          ELSE /\ pool' = [pool EXCEPT !.rotations = IF rotates THEN @ + 1 ELSE @]
               /\ proxies' = IF rotates THEN rotate(proxies) ELSE proxies
               /\ requests' = [requests EXCEPT
                     ![c].failed_on = IF rotates THEN requests[c].proxy_url ELSE None,
                     ![c].pc = IF SleepsAfter(requests[c].attempt) THEN "sleep" ELSE "loop",
                     ![c].attempt = IF SleepsAfter(requests[c].attempt) THEN @ ELSE @ + 1]
    /\ UNCHANGED <<active_requests, completed_requests, lock, context, stats, now,
                   next_id, scope, history, client, beside>>

\* line 200: the backoff sleep is over
PoolSleep(c) ==
    /\ requests[c].pc = "sleep"
    /\ requests' = [requests EXCEPT ![c].pc = "loop", ![c].attempt = @ + 1]
    /\ UNCHANGED <<active_requests, completed_requests, lock, context, stats, now,
                   next_id, scope, history, client, pool, proxies, beside>>

\* lines 202-206
PoolExhausted(c) ==
    /\ requests[c].pc = "loop"
    /\ ~AttemptsLeft(requests[c].attempt)
    /\ requests' = [requests EXCEPT ![c].pc = "raised"]
    /\ UNCHANGED <<active_requests, completed_requests, lock, context, stats, now,
                   next_id, scope, history, client, pool, proxies, beside>>

NextPool ==
    \/ PoolConstruct
    \/ \E c \in Callers :
          \/ PoolCall(c)
          \/ PoolAttempt(c)
          \/ \E o \in Outcomes : PoolResponse(c, o)
          \/ PoolHandle(c)
          \/ PoolSleep(c)
          \/ PoolExhausted(c)
    \/ CompleteEnd /\ UNCHANGED rest

SpecPool == Init /\ [][NextPool]_vars

\* ------------------------------------ calls that share the session
\* Several get_valid_session() calls on one QwenAuth run on one event loop.  A
\* call runs without interruption up to `await self.login()`; login() returns
\* at once with a configured token that validates and is suspended in the
\* browser login otherwise.
apart == <<missed, snapshot, lifecycle, swept, starts, http, stream, codec, proxies,
           requests>>

\* lines 90-104 for one of the calls: cache, save, return
SessionLoggedIn(c, auth_data, logins) ==
    /\ auth' = [auth EXCEPT !.cached_cookies = auth_data.cookies,
                            !.cached_token = auth_data.token, !.cached_at = now]
    /\ session_store' = save_session(auth_data.cookies, auth_data.token)
    /\ session_calls' = [session_calls EXCEPT
          ![c] = [pc |-> "returned", logins |-> logins,
                  result |-> SessionData(auth_data.cookies, auth_data.token)]]

\* get_valid_session(), lines 66-87, up to its return or to the browser login
SessionCall(c) ==
    /\ auth.made
    /\ session_calls[c].pc = "none"
    /\ IF IsTrue(auth.cached_cookies)
       THEN /\ session_calls' = [session_calls EXCEPT
                  ![c] = [pc |-> "returned", logins |-> 0,
                          result |-> SessionData(auth.cached_cookies, auth.cached_token)]]
            /\ UNCHANGED <<auth, session_store>>
       ELSE IF is_valid(MaxSessionAge) /\ load_session.saved
       THEN /\ auth' = [auth EXCEPT !.cached_cookies = load_session.cookies,
                                    !.cached_token = load_session.token,
                                    !.cached_at = load_session.created_at]
            /\ session_calls' = [session_calls EXCEPT
                  ![c] = [pc |-> "returned", logins |-> 0,
                          result |-> SessionData(load_session.cookies, load_session.token)]]
            /\ UNCHANGED session_store
       ELSE IF UsesBearerToken
       THEN SessionLoggedIn(c, SessionData({}, auth.bearer_token), 1)
       ELSE /\ session_calls' = [session_calls EXCEPT ![c].pc = "login", ![c].logins = 1]
            /\ UNCHANGED <<auth, session_store>>
    /\ UNCHANGED <<active_requests, completed_requests, lock, context, stats, now,
                   next_id, scope, history, apart>>

\* the browser login of one call ends; lines 87-108
SessionLoginDone(c, outcome) ==
    /\ session_calls[c].pc = "login"
    /\ LET auth_data == PlaywrightLogin(outcome)
       IN IF auth_data.raised = None
          THEN SessionLoggedIn(c, auth_data.value, 1)
          ELSE /\ session_calls' = [session_calls EXCEPT
                     ![c].pc = "returned", ![c].result = SessionOnFailure]
               /\ UNCHANGED <<auth, session_store>>
    /\ UNCHANGED <<active_requests, completed_requests, lock, context, stats, now,
                   next_id, scope, history, apart>>

NextLogin ==
    \/ AuthConstruct
    \/ \E c \in Callers : SessionCall(c)
    \/ \E c \in Callers, outcome \in BrowserOutcomes : SessionLoginDone(c, outcome)
    \/ Tick /\ UNCHANGED <<missed, rest>>

SpecLogin == Init /\ [][NextLogin]_vars

\* =================================================================== claims
Retired(id) == id \in IdsOf(completed_requests) \/ evicted[id] # "no"

Exited(id) == scope[id].state = "exited"

ClassifiedKinds == {"return", "TimeoutError", "Exception"}

\* C1: every track_request scope that has been left, on whatever exit path
\* (return, error, timeout, cancellation, close of the generator holding it), has
\* retired its context: complete_request counted it once, it is out of the active
\* map and in the completed map (until evicted) with a terminal status.
C1_ExitedScopeIsRetired ==
    \A id \in Ids :
        Exited(id) =>
            /\ id \notin DOMAIN active_requests
            /\ Retired(id)
            /\ Counted(id, "complete_request") = 1
            /\ (id \in IdsOf(completed_requests) => is_completed(get_context(id)))

\* C2: a scope left by a normal return has final status success and raises nothing;
\* one left by a timeout-classified error has status timeout; one left by any other
\* error has status failed with the error's message; both errors are re-raised.
C2_OutcomeClassified ==
    \A id \in Ids :
        (scope[id].state \in {"closing", "exited"} /\ scope[id].kind \in ClassifiedKinds
            /\ Stored(id) # NoContext) =>
            LET ctx == Stored(id)
                kind == scope[id].kind
            IN /\ (kind = "return" =>
                      ctx.status = "success" /\ ctx.error = None /\ ~scope[id].raised)
               /\ (kind = "TimeoutError" =>
                      ctx.status = "timeout" /\ ctx.error # None /\ scope[id].raised)
               /\ (kind = "Exception" =>
                      ctx.status = "failed" /\ ctx.error = Message(kind)
                      /\ scope[id].raised)

C2_Witness ==
    /\ ~lock
    /\ \E i, j \in Ids :
          /\ Exited(i) /\ scope[i].kind = "TimeoutError"
          /\ i \in IdsOf(completed_requests) /\ get_context(i).status = "timeout"
          /\ Exited(j) /\ scope[j].kind = "Exception"
          /\ j \in IdsOf(completed_requests) /\ get_context(j).status = "failed"
    /\ \E k \in Ids : Exited(k) /\ scope[k].kind = "return" /\ evicted[k] = "cap"

\* the three terminal counters are the increments the methods made, id by id
CountedFor(status) ==
    LET n[k \in 0..MaxRequests] ==
            IF k = 0 THEN 0
            ELSE n[k - 1] + counted[k].update_context[status]
                          + counted[k].complete_request[status]
    IN n[MaxRequests]

CountersAreTheIncrements ==
    /\ successful_requests = CountedFor("success")
    /\ failed_requests = CountedFor("failed")
    /\ timeout_requests = CountedFor("timeout")

\* C3: however many complete_request calls name an id, in sequence or interleaved,
\* they increment a terminal counter once in total, the counter of the status the
\* context was retired with, and the id is in the completed map once: a call that
\* finds the id no longer active is a no-op.
C3_CompleteCountsOnce ==
    /\ CountersAreTheIncrements
    /\ \A id \in Ids :
          /\ Counted(id, "complete_request") <= 1
          /\ Occurrences(id, completed_requests) <= 1
          /\ (retired_by[id] # None /\ ~lock) =>
                /\ id \notin DOMAIN active_requests
                /\ Occurrences(id, completed_requests) = 1
                /\ LET st == get_context(id).status
                   IN st \in TerminalStatuses =>
                         /\ counted[id].complete_request[st] = 1
                         /\ Counted(id, "complete_request") = 1

\* a second complete_request named an id already in the completed map
C3_Witness ==
    /\ ~lock
    /\ missed.op = "complete_request"
    /\ missed.was = "completed"
    /\ missed.id \in IdsOf(completed_requests)
    /\ get_context(missed.id).status \in TerminalStatuses
    /\ Counted(missed.id, "complete_request") = 1

\* C4: the terminal counters are incremented once per context id over all its
\* update_context and complete_request calls: never more than once, and once
\* when the id has been completed with a terminal status.
C4_CountedOncePerId ==
    \A id \in Ids :
        LET n == Counted(id, "update_context") + Counted(id, "complete_request")
        IN /\ n <= 1
           /\ (id \in IdsOf(completed_requests) /\ is_completed(get_context(id))) => n = 1

\* C5: a status changes once, from pending to success, failed or timeout: a
\* terminal status is never replaced, and nothing but those four is ever stored.
C5_StatusChangesOnce ==
    [][\A id \in Ids :
          /\ (Stored(id) # NoContext /\ is_completed(Stored(id))) =>
                Stored(id)'.status = Stored(id).status
          /\ Stored(id)' # NoContext => Stored(id)'.status \in KnownStatuses]_vars

\* C6: no id is in the active map and in the completed map at once; and whenever a
\* reader can run, a created context that was not evicted is in exactly one of
\* them, where get_context finds it: the move made by complete_request is never
\* seen half done.
C6_ExactlyOneCollection ==
    \A id \in Ids :
        /\ ~(id \in DOMAIN active_requests /\ id \in IdsOf(completed_requests))
        /\ (ReaderCanRun /\ id \in Created /\ evicted[id] = "no") =>
              /\ (id \in DOMAIN get_active_requests) # (id \in IdsOf(completed_requests))
              /\ get_context(id) # NoContext
              /\ get_context(id).request_id = id
        /\ (ReaderCanRun /\ (id \notin Created \/ evicted[id] # "no")) =>
              get_context(id) = NoContext

C6_Witness ==
    /\ ReaderCanRun
    /\ \E i, j, k \in Ids :
          /\ i \in DOMAIN active_requests
          /\ j \in IdsOf(completed_requests) /\ retired_by[j] = "track_request"
          /\ evicted[k] # "no"

\* C7: the completed map never holds more than max_tracked_requests entries once
\* complete_request has returned; its insert drops exactly the surplus, and what it
\* drops is the oldest by end_time (of equal end_time, the first completed); every
\* other entry stays as it was, in its order.
C7_CapEvictsOldest ==
    [][/\ ~lock' => Len(completed_requests') <= max_tracked_requests
       /\ (lock /\ ~lock') =>
            LET inserted == Append(completed_requests, context)
                surplus == Max(Len(inserted) - max_tracked_requests, 0)
                dropped == {i \in 1..Len(inserted) :
                               inserted[i].request_id \notin IdsOf(completed_requests')}
            IN /\ Cardinality(dropped) = surplus
               /\ Len(completed_requests') = Len(inserted) - surplus
               /\ \A i \in 1..Len(completed_requests') :
                     \E j \in 1..Len(inserted) : completed_requests'[i] = inserted[j]
               /\ \A i \in dropped, j \in (1..Len(inserted)) \ dropped :
                     /\ inserted[i].end_time <= inserted[j].end_time
                     /\ inserted[i].end_time = inserted[j].end_time => i < j]_vars

\* the cap was exceeded and an entry older than the two kept ones was dropped
C7_Witness ==
    /\ ~lock
    /\ Len(completed_requests) = max_tracked_requests
    /\ \E id \in Ids : evicted[id] = "cap"
    /\ \E i, j \in 1..Len(completed_requests) :
          completed_requests[i].end_time < completed_requests[j].end_time

\* C8: when every context was created by a track_request scope and every scope has
\* been left, s of them by return, f by a generic error and t by a timeout error,
\* get_stats reports total s+f+t, successful s, failed f, timeout t, active 0 and
\* success_rate 100*s/(s+f+t), 0 when none was created.
ExitedBy(kind) == Cardinality({id \in Ids : Exited(id) /\ scope[id].kind = kind})

C8_StatsAfterScopes ==
    (~lock /\ \A id \in Created : Exited(id) /\ scope[id].kind \in ClassifiedKinds) =>
        LET s == ExitedBy("return")
            f == ExitedBy("Exception")
            t == ExitedBy("TimeoutError")
            st == get_stats
        IN /\ st.total_requests = s + f + t
           /\ st.successful_requests = s
           /\ st.failed_requests = f
           /\ st.timeout_requests = t
           /\ st.active_requests = 0
           /\ st.success_rate.den > 0
           /\ IF s + f + t = 0 THEN st.success_rate.num = 0
              ELSE st.success_rate.num * (s + f + t) = 100 * s * st.success_rate.den

C8_Witness ==
    /\ ~lock
    /\ \A id \in Created : Exited(id) /\ scope[id].kind \in ClassifiedKinds
    /\ ExitedBy("return") >= 1 /\ ExitedBy("Exception") >= 1 /\ ExitedBy("TimeoutError") >= 1
    /\ Len(completed_requests) < total_requests

\* C9: update_context, increment_retry and complete_request given an id that is
\* not active (never created, completed or evicted) change nothing: not the maps,
\* not a stored context, not a counter, and the lock is free again.
C9_StrayCallsChangeNothing ==
    [][missed' # missed =>
          UNCHANGED <<active_requests, completed_requests, stats, lock, context>>]_vars

\* complete_request was called with an id the cap had evicted
C9_Witness ==
    /\ missed.op = "complete_request"
    /\ missed.was = "evicted"
    /\ evicted[missed.id] = "cap"
    /\ Len(completed_requests) = max_tracked_requests

\* C10: for every limit >= 0, get_completed_requests(limit) returns min(limit, n)
\* of the n completed entries, each once, those of the latest end_time, latest
\* first.
C10_MostRecentFirst ==
    ReaderCanRun =>
        \A limit \in 0..(MaxRequests + 1) :
            LET r == get_completed_requests(limit)
            IN /\ Len(r) = Min(limit, Len(completed_requests))
               /\ Range(r) \subseteq Range(completed_requests)
               /\ \A i, j \in 1..Len(r) :
                     /\ i < j => r[i].end_time >= r[j].end_time
                     /\ i # j => r[i].request_id # r[j].request_id
               /\ \A c \in Range(completed_requests) \ Range(r), x \in Range(r) :
                     x.end_time >= c.end_time

C10_Witness ==
    /\ ReaderCanRun
    /\ Len(completed_requests) = 2
    /\ completed_requests[1].end_time < completed_requests[2].end_time
    /\ get_completed_requests(1) = <<completed_requests[2]>>

\* C11: what get_active_requests and get_completed_requests returned is a snapshot:
\* as long as the caller has not changed it, its key set and the field values of
\* its contexts are what they were when the reader returned, whatever the tracker
\* did since; and a change the caller makes to it changes nothing in the tracker.
C11_SnapshotIsACopy ==
    [][/\ snapshot'.touched = 0 =>
             /\ snapshot'.keys = snapshot'.original_keys
             /\ \A id \in snapshot'.keys : snapshot'.view[id] = snapshot'.returned[id]
       /\ snapshot'.touched # snapshot.touched => UNCHANGED tracker]_vars

\* a loop task that can still sweep: not finished, no cancellation pending
CanSweep(t) == tasks[t].state \in {"created", "sleeping"} /\ ~tasks[t].must_cancel

Unfinished(t) == tasks[t].state \in {"created", "sleeping"}

\* C12: start() is idempotent: after one or more start() calls with no stop() call
\* since, exactly one loop task can sweep, the one in _cleanup_task; and under
\* any interleaving of start() and stop() at most one loop task can sweep at any
\* time (a task stop() cancelled may still be unfinished beside a new one, but it
\* sweeps no more).
C12_OneSweepLoop ==
    /\ Cardinality({t \in Tasks : CanSweep(t)}) <= 1
    /\ starts >= 1 =>
          /\ running
          /\ cleanup_task # 0
          /\ {t \in Tasks : CanSweep(t)} = {cleanup_task}

\* start() was called twice in a row while a task cancelled by an earlier stop()
\* was still unfinished
C12_Witness ==
    /\ starts = 2
    /\ CanSweep(cleanup_task)
    /\ \E t \in Tasks : Unfinished(t) /\ tasks[t].must_cancel

\* C13: stop() returns, and when it has returned the task it cancelled is done;
\* when every stop() called has returned and start() was not called since, no
\* loop task is left; a sweep happens only while the tracker is started.  Also for
\* a stop() without a start() before it, and for stop() called twice.
C13_StopIsDeterministic ==
    /\ [](\A c \in StopCallers :
            stop_calls[c].pc = "returned" =>
                \/ stop_calls[c].task = 0
                \/ tasks[stop_calls[c].task].state \in {"done", "cancelled"})
    /\ []((~running /\ \A c \in StopCallers : stop_calls[c].pc # "awaiting") =>
            \A t \in Tasks : ~Unfinished(t))
    /\ [][swept' # swept => running]_vars
    /\ \A c \in StopCallers :
          (stop_calls[c].pc = "awaiting") ~> (stop_calls[c].pc = "returned")

\* two stop() calls have returned after a loop that had swept was cancelled
C13_Witness ==
    /\ ~running
    /\ swept = 1
    /\ \E c, d \in StopCallers :
          /\ c # d
          /\ stop_calls[c].pc = "returned" /\ stop_calls[c].task # 0
          /\ tasks[stop_calls[c].task].state = "done"
          /\ stop_calls[d].pc = "returned"

\* C14: one sweep removes exactly the completed entries whose end_time is more
\* than max_request_age before the sweep time; the others stay as they are, in
\* their order; the active map and the counters are not touched.
C14_SweepRemovesTheOld ==
    [][swept' # swept =>
          LET old == {i \in 1..Len(completed_requests) :
                         now - completed_requests[i].end_time > max_request_age}
              young == (1..Len(completed_requests)) \ old
          IN /\ Len(completed_requests') = Cardinality(young)
             /\ \A i \in young :
                   \E j \in 1..Len(completed_requests') :
                       completed_requests'[j] = completed_requests[i]
             /\ \A i, j \in young :
                   i < j => \E k, l \in 1..Len(completed_requests') :
                               /\ k < l
                               /\ completed_requests'[k] = completed_requests[i]
                               /\ completed_requests'[l] = completed_requests[j]
             /\ UNCHANGED <<active_requests, stats>>]_vars

\* a sweep removed an entry and kept one exactly max_request_age old
C14_Witness ==
    /\ \E id \in Ids : evicted[id] = "sweep"
    /\ \E i \in 1..Len(completed_requests) :
          now - completed_requests[i].end_time = max_request_age
    /\ DOMAIN active_requests # {}

\* ---- the retry loop
Finished == call.pc \in {"returned", "raised"}

Is5xx(o) == o.kind = "Response" /\ 500 <= o.status /\ o.status < 600
Is4xx(o) == o.kind = "Response" /\ 400 <= o.status /\ o.status < 500
IsRetriable(o) == Is5xx(o) \/ o.kind \in {"TimeoutException", "ConnectError"}

\* complete_request retired id with this status (it may have been evicted since)
RetiredAs(id, status) ==
    /\ counted[id].complete_request[status] = 1
    /\ Counted(id, "complete_request") = 1
    /\ id \notin DOMAIN active_requests
    /\ id \in IdsOf(completed_requests) => get_context(id).status = status

RECURSIVE SumSeq(_)
SumSeq(q) == IF q = <<>> THEN 0 ELSE Head(q) + SumSeq(Tail(q))

\* C15: 5xx on the first k attempts and a success on attempt k+1: the call returns
\* that response and makes no further attempt, the k attempts are retired as
\* failed and the last as success, and an enabled pool was rotated k times.
C15_ReturnsAfterServerErrors ==
    LET n == Len(call.outcomes)
    IN (/\ n >= 1
        /\ IsSuccess(call.outcomes[n])
        /\ \A i \in 1..(n - 1) : Is5xx(call.outcomes[i])) =>
           /\ call.pc \in {"exit", "returned"}
           /\ Len(call.ids) = n
           /\ call.pc = "returned" =>
                 /\ call.result = call.outcomes[n]
                 /\ \A i \in 1..(n - 1) : RetiredAs(call.ids[i], "failed")
                 /\ RetiredAs(call.ids[n], "success")
                 /\ pool.rotations = IF pool.enabled THEN n - 1 ELSE 0
                 /\ Len(call.sleeps) = n - 1

\* 503, 503, 200 with max_retries = 3 and the pool enabled
C15_Witness ==
    /\ call.pc = "returned"
    /\ client.max_retries = 3
    /\ pool.enabled
    /\ call.outcomes = <<Response(503), Response(503), Response(200)>>
    /\ pool.rotations = 2

\* C16: an attempt that gets a 4xx status is the last one: the call raises that
\* error without another attempt, without a sleep after it and without rotating
\* the pool for it, and the attempt's context is retired as failed.
C16_ClientErrorIsFinal ==
    LET n == Len(call.outcomes)
    IN \A i \in 1..n :
          Is4xx(call.outcomes[i]) =>
             /\ i = n
             /\ call.pc \in {"exit", "raised"}
             /\ call.pc = "raised" =>
                   /\ call.result = ErrorOf(call.outcomes[n])
                   /\ call.rotated[n] = 0
                   /\ pool.rotations = SumSeq(SubSeq(call.rotated, 1, n - 1))
                   /\ Len(call.sleeps) = n - 1
                   /\ RetiredAs(call.ids[n], "failed")

\* a 404 on the second of three attempts, after a 503 that rotated the pool
C16_Witness ==
    /\ call.pc = "raised"
    /\ client.max_retries = 3
    /\ pool.enabled
    /\ call.outcomes = <<Response(503), Response(404)>>
    /\ pool.rotations = 1

\* C17: a call makes at most max_retries transport calls, the first included, and
\* exactly max_retries when each of them fails with a 5xx status, a timeout or a
\* connection error.
C17_AttemptsBounded ==
    /\ Len(call.outcomes) <= client.max_retries
    /\ Len(call.ids) <= client.max_retries
    /\ (Finished /\ \A i \in 1..Len(call.outcomes) : IsRetriable(call.outcomes[i])) =>
          /\ Len(call.outcomes) = client.max_retries
          /\ call.pc = "raised"

C17_Witness ==
    /\ call.pc = "raised"
    /\ client.max_retries = 3
    /\ call.outcomes = <<Response(503), Raised("TimeoutException"), Raised("ConnectError")>>

\* C18: the call returns only a successful response; when its attempts all failed
\* it raises the error of the last one; when no attempt ran it raises the generic
\* error.
C18_RaisesTheLastError ==
    LET n == Len(call.outcomes)
    IN /\ call.pc = "returned" =>
             n >= 1 /\ IsSuccess(call.outcomes[n]) /\ call.result = call.outcomes[n]
       /\ call.pc = "raised" =>
             IF n = 0 THEN call.result = GenericHTTPError /\ client.max_retries = 0
             ELSE call.result = ErrorOf(call.outcomes[n]) /\ ~IsSuccess(call.outcomes[n])
       /\ Finished \/ call.result = None

\* three attempts, three different errors, the third one raised
C18_Witness ==
    /\ call.pc = "raised"
    /\ call.outcomes = <<Response(503), Raised("TimeoutException"), Raised("ReadError")>>
    /\ call.result = Raised("ReadError")

\* C19: the j-th sleep of a call follows its j-th failed attempt (0-based j-1) and
\* lasts retry_delay * 2^(j-1); there is none after the last attempt of the
\* budget, after a success or after a 4xx: a finished call with n attempts slept
\* n - 1 times, retry_delay * (2^(n-1) - 1) in total.
C19_BackoffDoubles ==
    LET n == Len(call.outcomes)
    IN /\ \A j \in 1..Len(call.sleeps) : call.sleeps[j] = client.retry_delay * Pow2(j - 1)
       /\ Len(call.sleeps) <= Max(client.max_retries - 1, 0)
       /\ call.pc = "sleep" =>
             /\ ~IsSuccess(call.outcomes[n]) /\ ~Is4xx(call.outcomes[n])
             /\ n < client.max_retries
             /\ Len(call.sleeps) = n - 1
       /\ call.pc = "loop" => Len(call.sleeps) = Min(n, Max(client.max_retries - 1, 0))
       /\ Finished =>
             /\ Len(call.sleeps) = Max(n - 1, 0)
             /\ n >= 1 => SumSeq(call.sleeps) = client.retry_delay * (Pow2(n - 1) - 1)

\* all three attempts failed: two sleeps, of retry_delay and twice retry_delay
C19_Witness ==
    /\ call.pc = "raised"
    /\ client.max_retries = 3
    /\ client.retry_delay = 2
    /\ Len(call.outcomes) = 3
    /\ call.sleeps = <<2, 4>>

\* C20: the pool is rotated once for an attempt that fails with a 5xx status, a
\* timeout or a connection error while the pool is enabled, and for no other
\* attempt: not for a 4xx status, not for any other status or exception, not for
\* a success, not while the pool is disabled.
C20_RotatesOnServerAndNetworkErrors ==
    /\ \A i \in 1..Len(call.rotated) :
          call.rotated[i] =
              IF pool.enabled /\ IsRetriable(call.outcomes[i]) THEN 1 ELSE 0
    /\ pool.rotations = SumSeq(call.rotated)

\* ---- stream
\* C21: a stream() makes one transport call whatever happens, creates one tracked
\* context, never rotates the pool and never enters the retry loop; an error from
\* opening or iterating reaches the consumer after the context was retired as
\* failed, and a stream consumed to its end retires it as success.
C21_StreamIsOneAttempt ==
    /\ stream.transport_calls <= 1
    /\ stream.pc # "none" => stream.transport_calls = 1 /\ next_id = 2 /\ stream.id = 1
    /\ pool.rotations = 0 /\ call = NoRequest
    /\ stream.pc = "raised" =>
          /\ stream.error # NoError
          /\ RetiredAs(stream.id, "failed")
    /\ stream.pc = "done" =>
          /\ stream.error = NoError
          /\ RetiredAs(stream.id, "success")

\* a connection that breaks after the first chunk, with the pool enabled
C21_Witness ==
    /\ stream.pc = "raised"
    /\ stream.chunks = 1
    /\ stream.error = Raised("ReadError")
    /\ pool.enabled

\* ---- the codec
Succeeded(credentials) ==
    /\ credentials.raised = None
    /\ credentials.web_api_token # NoneStr
    /\ credentials.ssxmod_itna # NoneStr

Failed(credentials) == credentials = NoCredentials

\* C22: decompress_qwen_token gives back the two strings compress_qwen_token was
\* given, when neither holds the separator.
C22_RoundTrip ==
    (/\ codec.op = "decoded"
     /\ codec.kind = "token"
     /\ Count(Separator, codec.web_api_token) = 0
     /\ Count(Separator, codec.ssxmod_itna) = 0) =>
        codec.result = [raised |-> None, web_api_token |-> codec.web_api_token,
                        ssxmod_itna |-> codec.ssxmod_itna]

\* "aa" and "a", compressed when the clock had moved
C22_Witness ==
    /\ codec.op = "decoded"
    /\ codec.kind = "token"
    /\ codec.web_api_token = <<Letter, Letter>>
    /\ codec.ssxmod_itna = <<Letter>>
    /\ codec.mtime = 2
    /\ Succeeded(codec.result)

\* C23: decompress_qwen_token succeeds only when the token decodes and
\* decompresses to a text with exactly one separator; it fails when the text has
\* none or more than one, and when base64 or gzip fail.
C23_ExactlyOneSeparator ==
    codec.op = "decoded" =>
        LET decompressed == Unpack(codec.input)
        IN IF decompressed.raised = None /\ Count(Separator, decompressed.value) = 1
           THEN Succeeded(codec.result)
           ELSE Failed(codec.result)

\* C24: decompress_qwen_token raises nothing and returns both fields or
\* neither, whatever string it is given.
C24_AllOrNothing ==
    codec.op = "decoded" =>
        /\ codec.result.raised = None
        /\ Succeeded(codec.result) \/ Failed(codec.result)

\* "not-a-valid-token": neither field
C24_Witness ==
    /\ codec.op = "decoded"
    /\ codec.input = NotAValidToken
    /\ Failed(codec.result)

\* C25: validate_compressed_token raises nothing and is true exactly when
\* decompress_qwen_token succeeds.
C25_ValidateIsDecodeSucceeds ==
    codec.op = "decoded" =>
        /\ codec.valid.raised = None
        /\ codec.valid.value <=> Succeeded(codec.result)

\* the text "|": two empty fields, and a valid token
C25_Witness ==
    /\ codec.op = "decoded"
    /\ codec.kind = "packed"
    /\ codec.text = <<Separator>>
    /\ codec.valid.value
    /\ codec.result.web_api_token = <<>>

\* C26: two calls of compress_qwen_token with the same two strings return the
\* same token, whenever they are made.
C26_EncodeIsDeterministic ==
    codec.op = "encoded twice" => codec.again = codec.token

\* ---- the session
Returned(force_refresh) ==
    auth.pc = "returned" /\ auth.force_refresh = force_refresh

\* C27: with a configured token that validates, get_valid_session() returns
\* that token, and no browser login is made.
C27_ExplicitTokenFirst ==
    (Returned(FALSE) /\ UsesBearerToken) =>
        /\ auth.result.session
        /\ auth.result.token = auth.bearer_token
        /\ auth.browser_logins = 0

\* C28: get_valid_session(force_refresh=True) logs in with the browser whatever
\* is configured, cached or stored, and returns the token built from what the
\* browser found.
C28_ForcedRefreshLogsIn ==
    Returned(TRUE) =>
        /\ auth.browser_logins = 1
        /\ auth.source \notin {"bearer_token", "cache", "store"}
        /\ auth.result.session =>
              auth.result.token = compress_qwen_token(<<Letter>>, <<Letter>>, auth.returned_at)

\* C29: without a configured token that validates, get_valid_session() returns
\* a session it did not just log in for only when that session is at most
\* max_age old, whatever calls came before.
C29_CachedSessionIsYoung ==
    (Returned(FALSE) /\ ~UsesBearerToken /\ auth.source \in {"cache", "store"}) =>
        auth.returned_at - auth.cached_at <= MaxSessionAge

AfterLogin ==
    /\ auth.entry.result.session
    /\ auth.entry.source \in {"login", "bearer_token"}

\* C31: a call that logged in and returned a session has saved its token in the
\* session store; the next call, when it is not forced and starts at most
\* max_age later, returns the same token and does not log in.
C31_LoginIsPersistedAndReused ==
    /\ (auth.pc = "returned" /\ auth.result.session
           /\ auth.source \in {"login", "bearer_token"}) =>
          /\ session_store.saved
          /\ session_store.token = auth.result.token
          /\ session_store.created_at = auth.returned_at
    /\ (/\ auth.pc \in {"browser", "returned"}
        /\ ~auth.force_refresh
        /\ AfterLogin
        /\ auth.called_at - auth.entry.returned_at <= MaxSessionAge) =>
          /\ auth.pc = "returned"
          /\ auth.logins = 0
          /\ auth.result.session
          /\ auth.result.token = auth.entry.result.token

\* the token of a browser login comes back from the cache one clock step later
C31_Witness ==
    /\ auth.pc = "returned"
    /\ ~auth.force_refresh
    /\ AfterLogin
    /\ auth.entry.source = "login"
    /\ auth.called_at = auth.entry.returned_at + 1
    /\ auth.source = "cache"
    /\ auth.result.token = auth.entry.result.token

\* C39: a call that returns no session leaves the cached cookies and token and
\* the stored session as it found them.
C39_FailedCallChangesNothing ==
    (auth.pc = "returned" /\ ~auth.result.session) =>
        /\ auth.cached_cookies = auth.entry.cached_cookies
        /\ auth.cached_token = auth.entry.cached_token
        /\ session_store = auth.entry.session_store

\* ---- the retry loop and the tracker
\* the contexts of the call's attempts that are active
ActiveOf(ids) == Range(ids) \cap DOMAIN active_requests

\* C32: an attempt whose transport call timed out has its context retired with
\* status timeout, counted by the timeout counter and by no other.
C32_TimeoutIsRetiredAsTimeout ==
    \A i \in 1..Len(call.outcomes) :
        (/\ call.outcomes[i].kind = "TimeoutException"
         /\ scope[call.ids[i]].state = "exited") =>
            /\ RetiredAs(call.ids[i], "timeout")
            /\ counted[call.ids[i]].complete_request.failed = 0
            /\ timeout_requests >= 1

\* C34: a finished call that made k retries left a context whose retry_count is
\* k (its contexts are all still kept when k = 1).
C34_RetryCountCountsRetries ==
    (Finished /\ Len(call.ids) = 2) =>
        \E i \in 1..2 : get_context(call.ids[i]).retry_count = 1

\* C38: the contexts of a call's attempts are distinct, at most one of them is
\* active, none is active during the backoff sleep, between two attempts or
\* after the call, and total_requests has grown by one per attempt.
C38_OneContextPerAttempt ==
    /\ Cardinality(Range(call.ids)) = Len(call.ids)
    /\ Cardinality(ActiveOf(call.ids)) <= 1
    /\ ActiveOf(call.ids) \subseteq {call.id}
    /\ call.pc \in {"loop", "sleep", "returned", "raised"} =>
          /\ ActiveOf(call.ids) = {}
          /\ context = NoContext
          /\ \A i \in 1..Len(call.ids) :
                /\ scope[call.ids[i]].state = "exited"
                /\ Counted(call.ids[i], "complete_request") = 1
          /\ Len(call.outcomes) = Len(call.ids)
    /\ call.pc = "request" =>
          /\ ActiveOf(call.ids) = {call.id}
          /\ Len(call.ids) = Len(call.outcomes) + 1
    /\ total_requests = Len(call.ids)
    /\ Len(call.sleeps) <= Len(call.ids)

\* the call sleeps after its second failed attempt, both contexts retired
C38_Witness ==
    /\ call.pc = "sleep"
    /\ Len(call.ids) = 2
    /\ total_requests = 2
    /\ ActiveOf(call.ids) = {}
    /\ Len(call.sleeps) = 1

\* ---- the stamp and the counters
\* what completion stamps on a context
Stamp(ctx) == <<ctx.end_time, ctx.status, ctx.error>>

\* C35: once a context has an end_time, no operation changes its end_time, its
\* status or its error.
C35_StampedOnce ==
    [][\A id \in Ids :
          (/\ Stored(id) # NoContext
           /\ Stored(id).end_time # 0
           /\ Stored(id)' # NoContext) => Stamp(Stored(id)') = Stamp(Stored(id))]_vars

\* C36: whenever no complete_request is half done, total_requests is the number
\* of active contexts plus the three terminal counters, and success_rate is at
\* most 100.
C36_RequestsAreConserved ==
    ReaderCanRun =>
        /\ total_requests = Cardinality(DOMAIN active_requests) + successful_requests
                                + failed_requests + timeout_requests
        /\ successful_requests + failed_requests + timeout_requests <= total_requests
        /\ get_stats.success_rate.num <= 100 * get_stats.success_rate.den

\* C37: an active context is pending and has no end_time; a completed context
\* has a terminal status and an end_time.
C37_CollectionsMatchStatus ==
    /\ \A id \in DOMAIN active_requests :
          /\ active_requests[id].status = "pending"
          /\ active_requests[id].end_time = 0
    /\ \A i \in 1..Len(completed_requests) :
          /\ completed_requests[i].status \in TerminalStatuses
          /\ completed_requests[i].end_time # 0

\* ---- calls that share the pool
\* C33: the attempt that follows one that failed and rotated the pool goes
\* through another endpoint than the failed one, whatever other calls do.
C33_NextAttemptElsewhere ==
    \A c \in Callers :
        (requests[c].pc = "request" /\ requests[c].failed_on # None) =>
            requests[c].proxy_url # requests[c].failed_on

\* ---- calls that share the session
\* C40: while the browser login of one call is in flight no other call starts
\* one, and the calls that return a session return the same token.
C40_OneLoginInFlight ==
    /\ Cardinality({c \in Callers : session_calls[c].pc = "login"}) <= 1
    /\ \A c, d \in Callers :
          (/\ session_calls[c].pc = "returned" /\ session_calls[c].result.session
           /\ session_calls[d].pc = "returned" /\ session_calls[d].result.session) =>
              session_calls[c].result.token = session_calls[d].result.token

====
